---- MODULE Spec2Model ----
(***************************************************************************)
(* napari-membrane-intensity: the three workers of the plugin              *)
(*   TrackCellsWorker        (src/src/intensity_in_membrane/track_cells.py)*)
(*   MeasureMembraneIntensity(.../napari_intensity_in_membrane/            *)
(*                             measure_intensity.py)                       *)
(*   SegmentCellsWorker      (.../segment_cells.py)                        *)
(* as state machines.  A worker object is a record of its fields; every    *)
(* public method is one action.  A Python exception is the message it      *)
(* carries; a call that returns normally raises NoError.                   *)
(*                                                                         *)
(* Representation                                                          *)
(*   None            the record [none |-> TRUE]                            *)
(*   numpy array     [shape |-> <<d1,..,dk>>, data |-> nested sequences]   *)
(*   axes string     sequence of one-character strings, 'TYX' is           *)
(*                   <<"T","Y","X">>                                       *)
(*   pandas table    [rows |-> sequence of row records]                    *)
(*   dict            sequence of <<key, value>> items in insertion order   *)
(***************************************************************************)
EXTENDS Integers, Sequences, FiniteSets, TLC

VARIABLES
    tcw,    \* the TrackCellsWorker object
    miw,    \* the MeasureMembraneIntensity object
    scw,    \* the SegmentCellsWorker object
    fs,     \* the file system: whether /tmp/exported exists, the files written
    gui,    \* the widget: its results table
    calls,  \* the number of calls made so far, where a specification counts them
    last    \* history: the last method call, its arguments, what it raised,
            \* and the receiver as it was before the call

vars == <<tcw, miw, scw, fs, gui, calls, last>>

(***************************************************************************)
(* Bounds of the model                                                     *)
(***************************************************************************)
\* longest candidate axes string handed to a validator
MaxAxesLen == 3
\* largest number handed to a configuration setter (the smallest is -1)
MaxConfig == 3
\* height and width of a frame, in pixels
H == 3
W == 11
\* longest sequence of calls made on the workers of a pipeline
MaxCalls == 4

(***************************************************************************)
(* Python values                                                           *)
(***************************************************************************)
None == [none |-> TRUE]

NoError == "ok"

Ndim(a) == Len(a.shape)

RECURSIVE Zeros(_)
Zeros(shape) ==
    IF Len(shape) = 0 THEN 0
    ELSE [i \in 1..Head(shape) |-> Zeros(Tail(shape))]

Array(shape) == [shape |-> shape, data |-> Zeros(shape)]

\* the characters a candidate axes string is made of: the four tags and one
\* character that is no tag
AxisChars == {"T", "Z", "Y", "X", "C"}

Candidates == UNION {[1..n -> AxisChars] : n \in 0..MaxAxesLen}

\* the candidates of at most two characters
ShortCandidates == {c \in Candidates : Len(c) <= 2}

TYX == <<"T", "Y", "X">>

\* arrays of rank 1 to 4, used where only the rank of the data matters
RankArrays == {Array(<<2>>), Array(<<2, 2>>), Array(<<1, 2, 2>>), Array(<<1, 1, 2, 2>>)}

(***************************************************************************)
(* check_axes                                                              *)
(***************************************************************************)
ordered == <<"T", "Z", "Y", "X">>

valid == {ordered[i] : i \in 1..Len(ordered)}

\* ordered.index(a), for a in ordered
OrderedIndex(a) == (CHOOSE i \in 1..Len(ordered) : ordered[i] = a) - 1

CharSet(axes) == {axes[i] : i \in 1..Len(axes)}

ErrDuplicates == "The candidate axes contain duplicates."
ErrUnknown == "The candidate axes contain unknown elements."
ErrAxesData == "The candidate axes are not compatible with the current data."
ErrOrder == "The candidate axes are not in the correct order."

\* the loop over the axes that compares each position in ordered with the
\* position of the tag before it
RECURSIVE OrderLoop(_, _, _)
OrderLoop(axes, i, last_pos) ==
    IF i > Len(axes) THEN NoError
    ELSE LET curr_pos == OrderedIndex(axes[i]) IN
         IF curr_pos < last_pos THEN ErrOrder
         ELSE OrderLoop(axes, i + 1, curr_pos)

\* the checks that come before the loop; bound is the field the worker
\* compares the candidate's length with
CheckAxesHead(bound, axes) ==
    LET candidate == CharSet(axes) IN
    IF Len(axes) # Cardinality(candidate) THEN ErrDuplicates
    ELSE IF Len(axes) # Cardinality(valid \cap candidate) THEN ErrUnknown
    ELSE IF bound # None /\ Cardinality(candidate) # Ndim(bound) THEN ErrAxesData
    ELSE NoError

TrackCheckAxesNoOrder(self, axes) == CheckAxesHead(self.label_maps, axes)

TrackCheckAxes(self, axes) ==
    LET head == CheckAxesHead(self.label_maps, axes) IN
    IF head # NoError THEN head ELSE OrderLoop(axes, 1, -1)

\* MeasureMembraneIntensity.check_axes ends after the comparison with the
\* intensity channel
MeasureCheckAxes(self, axes) == CheckAxesHead(self.intensity_channel, axes)

SegmentCheckAxes(self, axes) ==
    LET head == CheckAxesHead(self.segmentation_channel, axes) IN
    IF head # NoError THEN head ELSE OrderLoop(axes, 1, -1)

(***************************************************************************)
(* Construction                                                            *)
(***************************************************************************)
EmptyTable == [rows |-> <<>>]

EmptyDict == <<>>

TrackCellsWorkerInit ==
    [label_maps        |-> None,
     axes              |-> TYX,
     detections        |-> EmptyTable,
     linked            |-> None,
     search_range      |-> 50,
     memory            |-> 2,
     use_velocity      |-> TRUE,
     tracked_labels    |-> None,
     merge_neighbors   |-> FALSE,
     remove_incomplete |-> FALSE,
     pairs             |-> EmptyDict]

\* a step of a specification that counts its calls, and one of a
\* specification that does not
Counted(A) == calls < MaxCalls /\ A /\ calls' = calls + 1

Uncounted(A) == A /\ UNCHANGED calls

MeasureMembraneIntensityInit ==
    [label_maps         |-> None,
     axes               |-> TYX,
     intensity_channel  |-> None,
     membrane_thickness |-> 4,
     factor             |-> 2000,
     rings              |-> None,
     inner              |-> None,
     results            |-> None]

\* the empty Python list
EmptyList == [shape |-> <<0>>, data |-> <<>>]

SegmentCellsWorkerInit ==
    [axes                 |-> TYX,
     segmentation_channel |-> None,
     label_maps           |-> EmptyList]

\* the controls set_active_ui switches
Controls ==
    {"segmentation_channel_combo", "cb_intensity_channel", "cell_diameter_spinbox",
     "le_thickness", "le_factor", "btn_run", "model_combo",
     "merge_neighbors_checkbox", "keep_points_layer_combo", "keep_labels_btn",
     "track_btn", "measure_btn", "clear_state_button"}

\* IntensitiesInMembraneWidget.__init__: no results table, no thread, every
\* control enabled
WidgetInit ==
    [rt      |-> None,
     enabled |-> [c \in Controls |-> TRUE],
     threads |-> <<>>]

Call(op, arg, raised, pre) == [op |-> op, arg |-> arg, raised |-> raised, pre |-> pre]

(***************************************************************************)
(* What a call's history records of a candidate axes string: the facts the *)
(* validator's contract is stated in, taken from the string itself.        *)
(***************************************************************************)
TagRank(c) == CASE c = "T" -> 0 [] c = "Z" -> 1 [] c = "Y" -> 2 [] c = "X" -> 3

PairwiseDistinct(axes) ==
    \A i, j \in 1..Len(axes) : i # j => axes[i] # axes[j]

AllTags(axes) == \A i \in 1..Len(axes) : axes[i] \in {"T", "Z", "Y", "X"}

CanonicalOrder(axes) ==
    \A i, j \in 1..Len(axes) :
        (i < j /\ axes[i] \in {"T", "Z", "Y", "X"} /\ axes[j] \in {"T", "Z", "Y", "X"})
            => TagRank(axes[i]) <= TagRank(axes[j])

AxesFacts(bound, axes) ==
    [distinct |-> PairwiseDistinct(axes),
     tags     |-> AllTags(axes),
     inorder  |-> CanonicalOrder(axes),
     len      |-> Len(axes),
     bound    |-> IF bound = None THEN -1 ELSE Ndim(bound)]

Init ==
    /\ tcw = TrackCellsWorkerInit
    /\ miw = MeasureMembraneIntensityInit
    /\ scw = SegmentCellsWorkerInit
    /\ fs \in [exported : BOOLEAN, files : {{}}]
    /\ gui = WidgetInit
    /\ calls = 0
    /\ last = Call("__init__", None, NoError, None)

(***************************************************************************)
(* TrackCellsWorker: binding axes and data                                 *)
(***************************************************************************)
ErrLabelMapsAxes == "The candidate label maps are not compatible with the current axes."

\* set_axes as a function of the object: <<object after, raised>>
TrackSetAxesF(self, axes) ==
    LET err == TrackCheckAxes(self, axes) IN
    IF err # NoError THEN <<self, err>>
    ELSE <<[self EXCEPT !.axes = axes], NoError>>

SetLabelMapsF(self, data) ==
    IF Ndim(data) # Len(self.axes) THEN <<self, ErrLabelMapsAxes>>
    ELSE <<[self EXCEPT !.label_maps = data], NoError>>

\* override_label_maps that puts the earlier label maps back when it fails
TrackOverrideRestores(self, labels, axes) ==
    LET s0 == [self EXCEPT !.label_maps = None]
        r1 == TrackSetAxesF(s0, axes)
        r2 == IF r1[2] # NoError THEN r1 ELSE SetLabelMapsF(r1[1], labels)
    IN  IF r2[2] # NoError
        THEN <<[r2[1] EXCEPT !.label_maps = self.label_maps], r2[2]>>
        ELSE r2

TrackOverrideLabelMapsF(self, labels, axes) ==
    LET s0 == [self EXCEPT !.label_maps = None]
        r1 == TrackSetAxesF(s0, axes)
    IN  IF r1[2] # NoError THEN r1 ELSE SetLabelMapsF(r1[1], labels)

TrackSetAxes(axes) ==
    LET r == TrackSetAxesF(tcw, axes) IN
    /\ tcw' = r[1]
    /\ last' = Call("tcw.set_axes", [facts |-> AxesFacts(tcw.label_maps, axes)], r[2], tcw)
    /\ UNCHANGED <<miw, scw, fs, gui>>

TrackSetLabelMaps(data) ==
    LET r == SetLabelMapsF(tcw, data) IN
    /\ tcw' = r[1]
    /\ last' = Call("tcw.set_label_maps", [ndim |-> Ndim(data)], r[2], tcw)
    /\ UNCHANGED <<miw, scw, fs, gui>>

TrackOverrideLabelMaps(labels, axes) ==
    LET r == TrackOverrideLabelMapsF(tcw, labels, axes) IN
    /\ tcw' = r[1]
    /\ last' = Call("tcw.override_label_maps", [ndim |-> Ndim(labels), axes |-> axes], r[2], tcw)
    /\ UNCHANGED <<miw, scw, fs, gui>>

\* the axes strings the plugin and its main blocks use, and their reorderings
NamedAxes == {TYX, <<"Y", "X">>, <<"Z", "Y", "X">>, <<"T", "Z", "Y", "X">>,
              <<"X", "Y">>, <<"Y", "T", "X">>}

NextTrackAxes ==
    \/ Uncounted(\E axes \in Candidates \cup NamedAxes : TrackSetAxes(axes))
    \/ Uncounted(\E data \in RankArrays : TrackSetLabelMaps(data))
    \/ Uncounted(\E data \in RankArrays, axes \in NamedAxes : TrackOverrideLabelMaps(data, axes))

SpecTrackAxes == Init /\ [][NextTrackAxes]_vars

(***************************************************************************)
(* MeasureMembraneIntensity: binding axes and data                         *)
(***************************************************************************)
ErrIntensityAxes == "The candidate intensity channel is not compatible with the current axes."

MeasureSetAxesF(self, axes) ==
    LET err == MeasureCheckAxes(self, axes) IN
    IF err # NoError THEN <<self, err>>
    ELSE <<[self EXCEPT !.axes = axes], NoError>>

SetIntensityChannelF(self, data) ==
    IF Ndim(data) # Len(self.axes) THEN <<self, ErrIntensityAxes>>
    ELSE <<[self EXCEPT !.intensity_channel = data], NoError>>

MeasureOverrideLabelMapsF(self, labels, axes) ==
    LET s0 == [self EXCEPT !.label_maps = None]
        r1 == MeasureSetAxesF(s0, axes)
    IN  IF r1[2] # NoError THEN r1 ELSE SetLabelMapsF(r1[1], labels)

MeasureOverrideIntensityChannelF(self, channel, axes) ==
    LET s0 == [self EXCEPT !.intensity_channel = None]
        r1 == MeasureSetAxesF(s0, axes)
    IN  IF r1[2] # NoError THEN r1 ELSE SetIntensityChannelF(r1[1], channel)

\* what TrackCellsWorker.check_axes answers for the same candidate when the
\* same array is bound to the tracker
TrackVerdict(bound, axes) == TrackCheckAxes([label_maps |-> bound], axes)

MeasureSetAxes(axes) ==
    LET r == MeasureSetAxesF(miw, axes) IN
    /\ miw' = r[1]
    /\ last' = Call("miw.set_axes",
                    [facts |-> AxesFacts(miw.intensity_channel, axes),
                     tracker |-> TrackVerdict(miw.intensity_channel, axes)],
                    r[2], miw)
    /\ UNCHANGED <<tcw, scw, fs, gui>>

MeasureSetLabelMaps(data) ==
    LET r == SetLabelMapsF(miw, data) IN
    /\ miw' = r[1]
    /\ last' = Call("miw.set_label_maps", [ndim |-> Ndim(data)], r[2], miw)
    /\ UNCHANGED <<tcw, scw, fs, gui>>

MeasureSetIntensityChannel(data) ==
    LET r == SetIntensityChannelF(miw, data) IN
    /\ miw' = r[1]
    /\ last' = Call("miw.set_intensity_channel", [ndim |-> Ndim(data)], r[2], miw)
    /\ UNCHANGED <<tcw, scw, fs, gui>>

MeasureOverrideLabelMaps(labels, axes) ==
    LET r == MeasureOverrideLabelMapsF(miw, labels, axes) IN
    /\ miw' = r[1]
    /\ last' = Call("miw.override_label_maps", [ndim |-> Ndim(labels), axes |-> axes], r[2], miw)
    /\ UNCHANGED <<tcw, scw, fs, gui>>

MeasureOverrideIntensityChannel(channel, axes) ==
    LET r == MeasureOverrideIntensityChannelF(miw, channel, axes) IN
    /\ miw' = r[1]
    /\ last' = Call("miw.override_intensity_channel", [ndim |-> Ndim(channel), axes |-> axes], r[2], miw)
    /\ UNCHANGED <<tcw, scw, fs, gui>>

NextMeasureAxes ==
    \/ Uncounted(\E axes \in ShortCandidates \cup NamedAxes : MeasureSetAxes(axes))
    \/ Uncounted(\E data \in RankArrays : MeasureSetLabelMaps(data))
    \/ Uncounted(\E data \in RankArrays : MeasureSetIntensityChannel(data))
    \/ Uncounted(\E data \in RankArrays, axes \in NamedAxes : MeasureOverrideLabelMaps(data, axes))
    \/ Uncounted(\E data \in RankArrays, axes \in NamedAxes : MeasureOverrideIntensityChannel(data, axes))

SpecMeasureAxes == Init /\ [][NextMeasureAxes]_vars

(***************************************************************************)
(* SegmentCellsWorker: binding axes and data                               *)
(***************************************************************************)
ErrChannelAxes == "The candidate channel is not compatible with the current axes."

SegmentSetAxesF(self, axes) ==
    LET err == SegmentCheckAxes(self, axes) IN
    IF err # NoError THEN <<self, err>>
    ELSE <<[self EXCEPT !.axes = axes], NoError>>

SetSegmentationChannelF(self, data) ==
    IF Ndim(data) # Len(self.axes) THEN <<self, ErrChannelAxes>>
    ELSE <<[self EXCEPT !.segmentation_channel = data], NoError>>

OverrideSegmentationChannelF(self, channel, axes) ==
    LET s0 == [self EXCEPT !.segmentation_channel = None]
        r1 == SegmentSetAxesF(s0, axes)
    IN  IF r1[2] # NoError THEN r1 ELSE SetSegmentationChannelF(r1[1], channel)

SegmentSetAxes(axes) ==
    LET r == SegmentSetAxesF(scw, axes) IN
    /\ scw' = r[1]
    /\ last' = Call("scw.set_axes",
                    [facts |-> AxesFacts(scw.segmentation_channel, axes),
                     tracker |-> TrackVerdict(scw.segmentation_channel, axes)],
                    r[2], scw)
    /\ UNCHANGED <<tcw, miw, fs, gui>>

SegmentSetSegmentationChannel(data) ==
    LET r == SetSegmentationChannelF(scw, data) IN
    /\ scw' = r[1]
    /\ last' = Call("scw.set_segmentation_channel", [ndim |-> Ndim(data)], r[2], scw)
    /\ UNCHANGED <<tcw, miw, fs, gui>>

SegmentOverrideSegmentationChannel(channel, axes) ==
    LET r == OverrideSegmentationChannelF(scw, channel, axes) IN
    /\ scw' = r[1]
    /\ last' = Call("scw.override_segmentation_channel", [ndim |-> Ndim(channel), axes |-> axes], r[2], scw)
    /\ UNCHANGED <<tcw, miw, fs, gui>>

NextSegmentAxes ==
    \/ Uncounted(\E axes \in Candidates \cup NamedAxes : SegmentSetAxes(axes))
    \/ Uncounted(\E data \in RankArrays : SegmentSetSegmentationChannel(data))
    \/ Uncounted(\E data \in RankArrays, axes \in NamedAxes : SegmentOverrideSegmentationChannel(data, axes))

SpecSegmentAxes == Init /\ [][NextSegmentAxes]_vars

(***************************************************************************)
(* Configuration setters.  factor is a float compared with 1e-3: the model *)
(* holds it in thousandths, so 2.0 is 2000 and the comparison is with 1.   *)
(***************************************************************************)
ErrSearchRange == "The search range cannot be negative or zero"
ErrMemory == "The memory cannot be negative"
ErrFactor == "The factor cannot be negative or zero"
ErrThickness == "The membrane thickness cannot be negative or zero"

SetSearchRangeLax(self, sr) ==
    IF sr < 0 THEN <<self, ErrSearchRange>>
    ELSE <<[self EXCEPT !.search_range = sr], NoError>>

SetSearchRangeF(self, sr) ==
    IF sr <= 0 THEN <<self, ErrSearchRange>>
    ELSE <<[self EXCEPT !.search_range = sr], NoError>>

SetMemoryF(self, mem) ==
    IF mem < 0 THEN <<self, ErrMemory>>
    ELSE <<[self EXCEPT !.memory = mem], NoError>>

SetFactorF(self, factor) ==
    IF factor <= 1 THEN <<self, ErrFactor>>
    ELSE <<[self EXCEPT !.factor = factor], NoError>>

SetMembraneThicknessF(self, thickness) ==
    IF thickness <= 0 THEN <<self, ErrThickness>>
    ELSE <<[self EXCEPT !.membrane_thickness = thickness], NoError>>

TrackSetSearchRange(sr) ==
    LET r == SetSearchRangeF(tcw, sr) IN
    /\ tcw' = r[1]
    /\ last' = Call("tcw.set_search_range", [value |-> sr], r[2], tcw)
    /\ UNCHANGED <<miw, scw, fs, gui>>

TrackSetMemory(mem) ==
    LET r == SetMemoryF(tcw, mem) IN
    /\ tcw' = r[1]
    /\ last' = Call("tcw.set_memory", [value |-> mem], r[2], tcw)
    /\ UNCHANGED <<miw, scw, fs, gui>>

MeasureSetFactor(factor) ==
    LET r == SetFactorF(miw, factor) IN
    /\ miw' = r[1]
    /\ last' = Call("miw.set_factor", [value |-> factor], r[2], miw)
    /\ UNCHANGED <<tcw, scw, fs, gui>>

MeasureSetMembraneThickness(thickness) ==
    LET r == SetMembraneThicknessF(miw, thickness) IN
    /\ miw' = r[1]
    /\ last' = Call("miw.set_membrane_thickness", [value |-> thickness], r[2], miw)
    /\ UNCHANGED <<tcw, scw, fs, gui>>

\* the numbers handed to the setters
ConfigValues == -1..MaxConfig

\* factors in thousandths: around the limit of 1e-3, and whole factors
FactorValues == {-1000, 0, 1, 2} \cup {1000 * k : k \in 1..MaxConfig}

NextConfig ==
    \/ Uncounted(\E sr \in ConfigValues : TrackSetSearchRange(sr))
    \/ Uncounted(\E mem \in ConfigValues : TrackSetMemory(mem))
    \/ Uncounted(\E factor \in FactorValues : MeasureSetFactor(factor))
    \/ Uncounted(\E thickness \in ConfigValues : MeasureSetMembraneThickness(thickness))

SpecConfig == Init /\ [][NextConfig]_vars


(***************************************************************************)
(* Arrays of the pipelines.  A stack has shape <<T, H, W>>; data[t+1] is   *)
(* frame t, a sequence of H rows of W values; pixel <<r, c>> of a frame f  *)
(* is f[r+1][c+1].                                                         *)
(***************************************************************************)
Px(f, p) == f[p[1] + 1][p[2] + 1]

FramePixels(f) == (0..(Len(f) - 1)) \X (0..(Len(f[1]) - 1))

OnBorder(f, p) ==
    \/ p[1] = 0 \/ p[1] = Len(f) - 1
    \/ p[2] = 0 \/ p[2] = Len(f[1]) - 1

Touching(p, q) ==
    /\ p # q
    /\ p[1] - q[1] \in -1..1
    /\ p[2] - q[2] \in -1..1

RECURSIVE SumF(_)
SumF(f) ==
    IF DOMAIN f = {} THEN 0
    ELSE LET x == CHOOSE x \in DOMAIN f : TRUE
         IN  f[x] + SumF([y \in DOMAIN f \ {x} |-> f[y]])

Max(S) == CHOOSE x \in S : \A y \in S : y <= x

RECURSIVE SortedSeq(_)
SortedSeq(S) ==
    IF S = {} THEN <<>>
    ELSE LET m == CHOOSE x \in S : \A y \in S : x <= y
         IN  <<m>> \o SortedSeq(S \ {m})

RECURSIVE Concat(_)
Concat(seqs) == IF seqs = <<>> THEN <<>> ELSE Head(seqs) \o Concat(Tail(seqs))

(***************************************************************************)
(* skimage.segmentation.clear_border and skimage.measure.regionprops, as   *)
(* labels_to_detections uses them on a 2-D frame.                          *)
(***************************************************************************)
\* the pixels joined to the seed pixels through touching pixels (8
\* neighbours) of the same nonzero value
RECURSIVE Grow(_, _)
Grow(f, S) ==
    LET more == {q \in FramePixels(f) \ S :
                    /\ Px(f, q) # 0
                    /\ \E p \in S : Touching(p, q) /\ Px(f, p) = Px(f, q)}
    IN  IF more = {} THEN S ELSE Grow(f, S \cup more)

BorderConnected(f) ==
    Grow(f, {p \in FramePixels(f) : OnBorder(f, p) /\ Px(f, p) # 0})

ClearBorder(f) ==
    LET gone == BorderConnected(f) IN
    [r \in 1..Len(f) |->
        [c \in 1..Len(f[1]) |-> IF <<r - 1, c - 1>> \in gone THEN 0 ELSE f[r][c]]]

Region(f, L) == {p \in FramePixels(f) : Px(f, p) = L}

\* n * sum(v^2) - sum(v)^2 over coordinate k of the region: n^2 times the
\* variance of the coordinate
Spread(S, k) ==
    Cardinality(S) * SumF([p \in S |-> p[k] * p[k]]) - SumF([p \in S |-> p[k]]) * SumF([p \in S |-> p[k]])

\* axis_major_length = 4 * sqrt(largest eigenvalue of the inertia tensor).
\* The objects of the model are single pixels and dominoes parallel to an
\* axis: the tensor is diagonal and the length a whole number.
AxisMajorLength(S) ==
    LET n == Cardinality(S)
        m == Max({Spread(S, 1), Spread(S, 2)})
    IN  CHOOSE d \in 0..(4 * n) : d * d * n * n = 16 * m

\* one entry per nonzero label, in ascending order of the label; a centroid
\* coordinate sum / n is the pair <<sum, n>>
RegionProps(f) ==
    LET labels == SortedSeq({Px(f, p) : p \in FramePixels(f)} \ {0}) IN
    [i \in 1..Len(labels) |->
        LET S == Region(f, labels[i]) IN
        [label             |-> labels[i],
         area              |-> Cardinality(S),
         centroid          |-> << <<SumF([p \in S |-> p[1]]), Cardinality(S)>>,
                                  <<SumF([p \in S |-> p[2]]), Cardinality(S)>> >>,
         axis_major_length |-> AxisMajorLength(S)]]

(***************************************************************************)
(* TrackCellsWorker: the pipeline                                          *)
(***************************************************************************)
DetectionRows(t, lab) ==
    LET props == RegionProps(ClearBorder(lab)) IN
    [i \in 1..Len(props) |->
        [frame      |-> t,
         x          |-> props[i].centroid[2],
         y          |-> props[i].centroid[1],
         size       |-> props[i].area,
         orig_label |-> props[i].label,
         diameter   |-> props[i].axis_major_length]]

\* labels_to_detections with `rows` kept from one call to the next
LabelsToDetectionsAppend(self, label_list) ==
    [self EXCEPT !.detections =
        [rows |-> self.detections.rows \o
                  Concat([t \in 1..Len(label_list.data) |->
                            DetectionRows(t - 1, label_list.data[t])])]]

\* labels_to_detections(label_list) for a stack of 2-D frames
LabelsToDetections(self, label_list) ==
    [self EXCEPT !.detections =
        [rows |-> Concat([t \in 1..Len(label_list.data) |->
                            DetectionRows(t - 1, label_list.data[t])])]]

(***************************************************************************)
(* trackpy's link_df.  Its answer is one particle number per detection    *)
(* row: numbers start at 0 and are handed out in the order the tracks      *)
(* start, and two rows of one frame never share a number.  The search      *)
(* range, the memory and the velocity prediction choose among the answers  *)
(* of that form; the model allows every one of them.                       *)
(***************************************************************************)
LinkOptions(rows, acc) ==
    LET i == Len(acc) + 1
        open == {acc[j] : j \in 1..Len(acc)}
        taken == {acc[j] : j \in {k \in 1..Len(acc) : rows[k].frame = rows[i].frame}}
    IN  (open \ taken) \cup {Cardinality(open)}

RECURSIVE LinkFrom(_, _)
LinkFrom(rows, acc) ==
    IF Len(acc) = Len(rows) THEN {acc}
    ELSE UNION {LinkFrom(rows, Append(acc, k)) : k \in LinkOptions(rows, acc)}

LinkOutcomes(rows) == LinkFrom(rows, <<>>)

ErrLinkEmpty == "KeyError: 'frame'"

\* link_tracks; particle is what link_df answered, plus one
LinkTracksF(self, particle) ==
    IF Len(self.detections.rows) = 0 THEN <<self, ErrLinkEmpty>>
    ELSE <<[self EXCEPT !.linked =
                [rows |-> [i \in 1..Len(self.detections.rows) |->
                    [frame      |-> self.detections.rows[i].frame,
                     x          |-> self.detections.rows[i].x,
                     y          |-> self.detections.rows[i].y,
                     size       |-> self.detections.rows[i].size,
                     orig_label |-> self.detections.rows[i].orig_label,
                     diameter   |-> self.detections.rows[i].diameter,
                     particle   |-> particle[i] + 1]]]],
             NoError>>

\* numpy's uint16
Uint16Modulus == 65536

RowsOfFrame(rows, t) == SelectSeq(rows, LAMBDA row : row.frame = t)

\* the value of one pixel after the loop over the rows of its frame: the
\* track of the last row whose original label the pixel carries
RECURSIVE RelabelPixel(_, _, _, _)
RelabelPixel(g, i, v, out) ==
    IF i > Len(g) THEN out
    ELSE IF g[i].orig_label # 0 /\ v = g[i].orig_label
         THEN RelabelPixel(g, i + 1, v, g[i].particle % Uint16Modulus)
         ELSE RelabelPixel(g, i + 1, v, out)

ErrNoneType == "AttributeError: 'NoneType' object"
ErrIndex == "IndexError"

\* relabel_with_tracks painting over the stack of the call before
RelabelWithTracksStale(self) ==
    IF self.label_maps = None \/ self.linked = None THEN <<self, ErrNoneType>>
    ELSE IF \E i \in 1..Len(self.linked.rows) :
                self.linked.rows[i].frame >= Len(self.label_maps.data)
         THEN <<self, ErrIndex>>
    ELSE <<[self EXCEPT !.tracked_labels =
                [shape |-> self.label_maps.shape,
                 data  |-> [t \in 1..Len(self.label_maps.data) |->
                    LET lab == self.label_maps.data[t]
                        g == RowsOfFrame(self.linked.rows, t - 1)
                        old == IF self.tracked_labels # None
                                  /\ self.tracked_labels.shape = self.label_maps.shape
                               THEN self.tracked_labels.data[t]
                               ELSE Zeros(self.label_maps.shape)[t]
                    IN  [r \in 1..Len(lab) |-> [c \in 1..Len(lab[1]) |->
                            RelabelPixel(g, 1, lab[r][c], old[r][c])]]]]],
             NoError>>

RelabelWithTracksF(self) ==
    IF self.label_maps = None \/ self.linked = None THEN <<self, ErrNoneType>>
    ELSE IF \E i \in 1..Len(self.linked.rows) :
                self.linked.rows[i].frame >= Len(self.label_maps.data)
         THEN <<self, ErrIndex>>
    ELSE <<[self EXCEPT !.tracked_labels =
                [shape |-> self.label_maps.shape,
                 data  |-> [t \in 1..Len(self.label_maps.data) |->
                    LET lab == self.label_maps.data[t]
                        g == RowsOfFrame(self.linked.rows, t - 1)
                    IN  [r \in 1..Len(lab) |-> [c \in 1..Len(lab[1]) |->
                            RelabelPixel(g, 1, lab[r][c], 0)]]]]],
             NoError>>

ErrOverflow == "OverflowError: Python integer out of bounds for uint16"

\* an identity that uint16 cannot hold is assigned by relabel_with_tracks
Overflows(self) ==
    /\ self.label_maps # None
    /\ self.linked # None
    /\ \E i \in 1..Len(self.linked.rows) :
        /\ self.linked.rows[i].frame < Len(self.label_maps.data)
        /\ self.linked.rows[i].orig_label # 0
        /\ self.linked.rows[i].particle >= Uint16Modulus

\* the assignment of a Python int that uint16 cannot hold wraps around in
\* NumPy 1 and raises in NumPy 2; the repository does not pin the version
RelabelOutcomes(self) ==
    {RelabelWithTracksF(self)} \cup
    (IF RelabelWithTracksF(self)[2] = NoError /\ Overflows(self)
     THEN {<<self, ErrOverflow>>} ELSE {})

ErrNoLinkedSave == "No linked tracks to save."
ErrPath == "The output path is not valid."
ErrNoLinked == "No linked tracks to process."
ErrNoLabelMaps == "Label maps have not been set."


(***************************************************************************)
(* dict: items <<key, value>> in insertion order                           *)
(***************************************************************************)
DictKeys(d) == {d[i][1] : i \in 1..Len(d)}

DictGet(d, k) == d[CHOOSE i \in 1..Len(d) : d[i][1] = k][2]

DictSet(d, k, v) ==
    IF k \in DictKeys(d)
    THEN [i \in 1..Len(d) |-> IF d[i][1] = k THEN <<k, v>> ELSE d[i]]
    ELSE Append(d, <<k, v>>)

\* the orders in which a set can be iterated
Perms(S) ==
    {f \in [1..Cardinality(S) -> S] : \A i, j \in 1..Cardinality(S) : i # j => f[i] # f[j]}

\* the elements of S in the order of iteration
Iterate(S, order) == SelectSeq(order, LAMBDA k : k \in S)

(***************************************************************************)
(* isolate_full_tracks                                                     *)
(***************************************************************************)
ParticlesAt(rows, t) == {rows[i].particle : i \in {j \in 1..Len(rows) : rows[j].frame = t}}

IsolateKeepAll(self) ==
    IF self.linked = None THEN <<self, ErrNoLinked>> ELSE <<self, NoError>>

IsolateFullTracksF(self) ==
    IF self.linked = None THEN <<self, ErrNoLinked>>
    ELSE IF Len(self.axes) = 0 THEN <<self, ErrIndex>>
    ELSE IF self.axes[1] # "T" THEN <<self, NoError>>
    ELSE IF self.label_maps = None THEN <<self, ErrNoneType>>
    ELSE LET complete_labels ==
                 ParticlesAt(self.linked.rows, self.label_maps.shape[1] - 1)
         IN  <<[self EXCEPT !.linked =
                    [rows |-> SelectSeq(self.linked.rows,
                                        LAMBDA row : row.particle \in complete_labels)]],
               NoError>>

(***************************************************************************)
(* make_pairs                                                              *)
(***************************************************************************)
\* drop_duplicates(subset=["particle"]): the first row of every particle
RECURSIVE DropDuplicates(_, _, _)
DropDuplicates(rows, i, acc) ==
    IF i > Len(rows) THEN acc
    ELSE IF \E j \in 1..Len(acc) : acc[j].particle = rows[i].particle
         THEN DropDuplicates(rows, i + 1, acc)
         ELSE DropDuplicates(rows, i + 1, Append(acc, rows[i]))

\* np.hypot(xi - xj, yi - yj) < 1.5 * (diams[i] + diams[j]), with the
\* coordinates xi = sx/n as pairs: both sides squared and multiplied by
\* 4 * (ni * nj)^2
Near(ri, rj) ==
    LET dx == ri.x[1] * rj.x[2] - rj.x[1] * ri.x[2]
        dy == ri.y[1] * rj.y[2] - rj.y[1] * ri.y[2]
        nn == ri.x[2] * rj.x[2]
        dd == ri.diameter + rj.diameter
    IN  4 * (dx * dx + dy * dy) < 9 * dd * dd * nn * nn

\* adj: for every particle of pts the set of the other particles near it
Adjacency(pts) ==
    [p \in {pts[i].particle : i \in 1..Len(pts)} |->
        {pts[j].particle : j \in {k \in 1..Len(pts) :
            \E i \in 1..Len(pts) :
                pts[i].particle = p /\ i # k /\ Near(pts[i], pts[k])}}]

\* the while loop over the stack: the connected component of the particles
\* on the stack
RECURSIVE Explore(_, _, _, _)
Explore(adj, order, stack, comp) ==
    IF stack = <<>> THEN comp
    ELSE LET q == stack[Len(stack)]
             rest == SubSeq(stack, 1, Len(stack) - 1)
         IN  IF q \in comp THEN Explore(adj, order, rest, comp)
             ELSE Explore(adj, order,
                          rest \o Iterate(adj[q] \ (comp \cup {q}), order),
                          comp \cup {q})

PairUpAnyTwo(adj, order, comp, valid_pairs) ==
    IF Cardinality(comp) >= 2
    THEN LET t == Iterate(comp, order) IN
         DictSet(DictSet(valid_pairs, t[1], t[2]), t[2], t[1])
    ELSE valid_pairs

PairUp(adj, order, comp, valid_pairs) ==
    IF Cardinality(comp) = 2
    THEN LET t == Iterate(comp, order) IN
         IF Cardinality(adj[t[1]]) = 1 /\ Cardinality(adj[t[2]]) = 1
         THEN DictSet(DictSet(valid_pairs, t[1], t[2]), t[2], t[1])
         ELSE valid_pairs
    ELSE valid_pairs

\* the for loop over adj.keys()
RECURSIVE ComponentsLoop(_, _, _, _, _, _)
ComponentsLoop(adj, order, keys, i, visited, valid_pairs) ==
    IF i > Len(keys) THEN valid_pairs
    ELSE IF keys[i] \in visited
         THEN ComponentsLoop(adj, order, keys, i + 1, visited, valid_pairs)
         ELSE LET comp == Explore(adj, order, <<keys[i]>>, {}) IN
              ComponentsLoop(adj, order, keys, i + 1, visited \cup comp,
                             PairUp(adj, order, comp, valid_pairs))

\* the rows make_pairs builds the graph from; <<>> where it returns before
LastPoints(self) ==
    IF \/ self.linked = None \/ self.label_maps = None
       \/ Len(self.axes) = 0
    THEN <<>>
    ELSE IF self.axes[1] # "T" THEN <<>>
    ELSE DropDuplicates(
            RowsOfFrame(self.linked.rows, self.label_maps.shape[1] - 1), 1, <<>>)

\* make_pairs without the line self.pairs = {}
MakePairsKeepsOld(self, order) ==
    IF self.linked = None THEN <<self, ErrNoLinked>>
    ELSE IF Len(self.axes) = 0 THEN <<self, ErrIndex>>
         ELSE IF self.axes[1] # "T" THEN <<self, NoError>>
         ELSE IF self.label_maps = None THEN <<self, ErrNoneType>>
         ELSE LET pts == LastPoints(self)
                  adj == Adjacency(pts)
                  keys == [i \in 1..Len(pts) |-> pts[i].particle]
              IN  IF Len(pts) = 0 THEN <<self, NoError>>
                  ELSE <<[self EXCEPT !.pairs =
                             ComponentsLoop(adj, order, keys, 1, {}, EmptyDict)],
                         NoError>>

\* order: the order in which Python iterates a set of these particles
MakePairsF(self, order) ==
    IF self.linked = None THEN <<self, ErrNoLinked>>
    ELSE LET s0 == [self EXCEPT !.pairs = EmptyDict] IN
         IF Len(self.axes) = 0 THEN <<s0, ErrIndex>>
         ELSE IF self.axes[1] # "T" THEN <<s0, NoError>>
         ELSE IF self.label_maps = None THEN <<s0, ErrNoneType>>
         ELSE LET pts == LastPoints(self)
                  adj == Adjacency(pts)
                  keys == [i \in 1..Len(pts) |-> pts[i].particle]
              IN  IF Len(pts) = 0 THEN <<s0, NoError>>
                  ELSE <<[self EXCEPT !.pairs =
                             ComponentsLoop(adj, order, keys, 1, {}, EmptyDict)],
                         NoError>>

MakePairsOrders(self) ==
    Perms({LastPoints(self)[i].particle : i \in 1..Len(LastPoints(self))})

(***************************************************************************)
(* apply_pairing                                                           *)
(***************************************************************************)
\* the loop over self.pairs.items(): <<pair_map, new_particle_id>>
RECURSIVE PairMapLoop(_, _, _, _)
PairMapLoop(pairs, i, pair_map, new_particle_id) ==
    IF i > Len(pairs) THEN pair_map
    ELSE LET p1 == pairs[i][1]
             p2 == pairs[i][2]
         IN  IF p1 \in DictKeys(pair_map) \/ p2 \in DictKeys(pair_map)
             THEN PairMapLoop(pairs, i + 1, pair_map, new_particle_id)
             ELSE PairMapLoop(pairs, i + 1,
                              DictSet(DictSet(pair_map, p1, new_particle_id),
                                      p2, new_particle_id),
                              new_particle_id + 1)

FirstNewIdReused(rows) == Max({rows[i].particle : i \in 1..Len(rows)})

FirstNewId(rows) == Max({rows[i].particle : i \in 1..Len(rows)}) + 1

ApplyPairingUnchecked(self) ==
    IF self.linked = None \/ Len(self.pairs) = 0 THEN <<self, NoError>>
    ELSE LET pair_map == PairMapLoop(self.pairs, 1, EmptyDict,
                                     FirstNewId(self.linked.rows))
         IN  <<[self EXCEPT !.linked =
                    [rows |-> [i \in 1..Len(self.linked.rows) |->
                        LET x == self.linked.rows[i].particle IN
                        [self.linked.rows[i] EXCEPT !.particle =
                            IF x \in DictKeys(pair_map) THEN DictGet(pair_map, x) ELSE x]]]],
               NoError>>

\* apply_pairing rewriting the rows of the last frame only
ApplyPairingLastFrame(self) ==
    IF self.linked = None THEN <<self, ErrNoLinked>>
    ELSE IF Len(self.pairs) = 0 THEN <<self, NoError>>
    ELSE IF Len(self.linked.rows) = 0 THEN <<self, NoError>>
    ELSE LET pair_map == PairMapLoop(self.pairs, 1, EmptyDict,
                                     FirstNewId(self.linked.rows))
             last_frame == Max({self.linked.rows[i].frame :
                                    i \in 1..Len(self.linked.rows)})
         IN  <<[self EXCEPT !.linked =
                    [rows |-> [i \in 1..Len(self.linked.rows) |->
                        LET x == self.linked.rows[i].particle IN
                        [self.linked.rows[i] EXCEPT !.particle =
                            IF x \in DictKeys(pair_map)
                               /\ self.linked.rows[i].frame = last_frame
                            THEN DictGet(pair_map, x) ELSE x]]]],
               NoError>>

ApplyPairingF(self) ==
    IF self.linked = None THEN <<self, ErrNoLinked>>
    ELSE IF Len(self.pairs) = 0 THEN <<self, NoError>>
    ELSE IF Len(self.linked.rows) = 0 THEN <<self, NoError>>
    ELSE LET pair_map == PairMapLoop(self.pairs, 1, EmptyDict,
                                     FirstNewId(self.linked.rows))
         IN  <<[self EXCEPT !.linked =
                    [rows |-> [i \in 1..Len(self.linked.rows) |->
                        LET x == self.linked.rows[i].particle IN
                        [self.linked.rows[i] EXCEPT !.particle =
                            IF x \in DictKeys(pair_map) THEN DictGet(pair_map, x) ELSE x]]]],
               NoError>>

(***************************************************************************)
(* save_linked_tracks and run                                              *)
(***************************************************************************)
SaveLinkedTracksF(self, path) ==
    IF self.linked = None THEN <<self, ErrNoLinkedSave>>
    ELSE IF path = "None" THEN <<self, ErrPath>>
    ELSE <<self, NoError>>

\* r is <<object, raised>>: the next stage runs unless the one before raised
Then(r, Stage(_)) == IF r[2] # NoError THEN r ELSE Stage(r[1])

TrackRunDetectResets(self) ==
    IF self.label_maps = None
    THEN <<[self EXCEPT !.detections = EmptyTable, !.linked = None,
                        !.tracked_labels = None],
           ErrNoLabelMaps>>
    ELSE <<LabelsToDetections(self, self.label_maps), NoError>>

\* run(): the check of the input and labels_to_detections
TrackRunDetect(self) ==
    IF self.label_maps = None THEN <<self, ErrNoLabelMaps>>
    ELSE <<LabelsToDetections(self, self.label_maps), NoError>>

\* run(): link_tracks and, if asked for, isolate_full_tracks
TrackRunLink(d, particle) ==
    Then(Then(d, LAMBDA s : LinkTracksF(s, particle)),
         LAMBDA s : IF s.remove_incomplete THEN IsolateFullTracksF(s)
                    ELSE <<s, NoError>>)

\* run(): if asked for, make_pairs and apply_pairing; relabel_with_tracks
TrackRunMerge(l, order) ==
    Then(Then(l, LAMBDA s : IF s.merge_neighbors
                            THEN Then(MakePairsF(s, order), ApplyPairingF)
                            ELSE <<s, NoError>>),
         RelabelWithTracksF)

TrackRunF(self, particle, order) ==
    TrackRunMerge(TrackRunLink(TrackRunDetect(self), particle), order)

\* what link_df may answer to run()
RunLinkOutcomes(d) ==
    IF d[2] # NoError THEN {<<>>} ELSE LinkOutcomes(d[1].detections.rows)

RunOrders(l) ==
    IF l[2] # NoError \/ ~l[1].merge_neighbors THEN {<<>>}
    ELSE MakePairsOrders(l[1])


(***************************************************************************)
(* The label maps of the model.  An object is the set of its pixels; a     *)
(* frame is painted from its objects, each with its frame-local label.     *)
(***************************************************************************)
Paint(objs) ==
    [r \in 1..H |-> [c \in 1..W |->
        LET hit == {L \in DOMAIN objs : <<r - 1, c - 1>> \in objs[L]}
        IN  IF hit = {} THEN 0 ELSE CHOOSE L \in hit : TRUE]]

Stack(frames) == [shape |-> <<Len(frames), H, W>>, data |-> frames]

\* on the border: a corner pixel, and a domino with one pixel inside
Corner == {<<0, 0>>}
BorderDomino == {<<0, 5>>, <<1, 5>>}
\* inside: dominoes (diameter 2) and single pixels (diameter 0)
D1 == {<<1, 1>>, <<1, 2>>}
D2near == {<<1, 6>>, <<1, 7>>}
D2far == {<<1, 8>>, <<1, 9>>}
P3 == {<<1, 3>>}
P4 == {<<1, 4>>}
P7 == {<<1, 7>>}

\* one label in two pieces, one of them on the border
SplitLabel == {<<0, 0>>, <<1, 2>>}

\* no object inside
FrameBorderOnly == Paint(1 :> Corner)
\* one object inside, one on the border
FrameSingle == Paint(1 :> Corner @@ 2 :> P4)
\* D1 and P3 are near each other and nothing else is
FramePair == Paint(1 :> BorderDomino @@ 2 :> D1 @@ 3 :> P3)
\* each of the three is near the two others
FrameTriangle == Paint(1 :> D1 @@ 2 :> D2near @@ 3 :> P4)
\* P3 - D1 - D2near: the ends are not near each other
FrameChain == Paint(1 :> P3 @@ 2 :> D1 @@ 3 :> D2near)
\* D1 with P3, D2far with P7, and the two pairs apart
FrameTwoPairs == Paint(1 :> D1 @@ 2 :> P3 @@ 3 :> D2far @@ 4 :> P7)
\* the piece of label 1 inside is not joined to its piece on the border
FrameSplit == Paint(1 :> SplitLabel @@ 2 :> P7)

\* the stacks the stages are called on
Stacks ==
    {Stack(<<FrameTwoPairs>>),
     Stack(<<FrameTriangle>>),
     Stack(<<FrameChain>>),
     Stack(<<FrameSingle, FramePair>>),
     Stack(<<FrameSingle, FrameBorderOnly>>)}

NonePath == "None"

Paths == {NonePath, "linked_tracks.csv"}

(***************************************************************************)
(* TrackCellsWorker: the actions of the pipeline                           *)
(***************************************************************************)
TrackSetMergeNeighbors(mn) ==
    /\ tcw' = [tcw EXCEPT !.merge_neighbors = mn]
    /\ last' = Call("tcw.set_merge_neighbors", [value |-> mn], NoError, tcw)
    /\ UNCHANGED <<miw, scw, fs, gui>>

TrackSetRemoveIncomplete(ri) ==
    /\ tcw' = [tcw EXCEPT !.remove_incomplete = ri]
    /\ last' = Call("tcw.set_remove_incomplete", [value |-> ri], NoError, tcw)
    /\ UNCHANGED <<miw, scw, fs, gui>>

TrackSaveLinkedTracks(path) ==
    LET r == SaveLinkedTracksF(tcw, path) IN
    /\ tcw' = r[1]
    /\ fs' = IF r[2] = NoError THEN [fs EXCEPT !.files = @ \cup {path}] ELSE fs
    /\ last' = Call("tcw.save_linked_tracks", [path |-> path], r[2], tcw)
    /\ UNCHANGED <<miw, scw, gui>>

TrackIsolateFullTracks ==
    LET r == IsolateFullTracksF(tcw) IN
    /\ tcw' = r[1]
    /\ last' = Call("tcw.isolate_full_tracks", None, r[2], tcw)
    /\ UNCHANGED <<miw, scw, fs, gui>>

TrackMakePairs ==
    \E order \in MakePairsOrders(tcw) :
        LET r == MakePairsF(tcw, order) IN
        /\ tcw' = r[1]
        /\ last' = Call("tcw.make_pairs", None, r[2], tcw)
        /\ UNCHANGED <<miw, scw, fs, gui>>

TrackApplyPairing ==
    LET r == ApplyPairingF(tcw) IN
    /\ tcw' = r[1]
    /\ last' = Call("tcw.apply_pairing", None, r[2], tcw)
    /\ UNCHANGED <<miw, scw, fs, gui>>

TrackRelabelWithTracks ==
    \E r \in RelabelOutcomes(tcw) :
    /\ tcw' = r[1]
    /\ last' = Call("tcw.relabel_with_tracks", None, r[2], tcw)
    /\ UNCHANGED <<miw, scw, fs, gui>>

\* last.arg keeps what link_df answered
TrackRun ==
    LET d == TrackRunDetect(tcw) IN
    \E particle \in RunLinkOutcomes(d) :
        LET l == TrackRunLink(d, particle) IN
        \E order \in RunOrders(l) :
            LET r == TrackRunMerge(l, order) IN
            /\ tcw' = r[1]
            /\ last' = Call("tcw.run", [particle |-> particle], r[2], tcw)
            /\ UNCHANGED <<miw, scw, fs, gui>>

Next ==
    \/ Counted(\E data \in Stacks : TrackSetLabelMaps(data))
    \/ Counted(TrackRun)
    \/ Counted(TrackIsolateFullTracks)
    \/ Counted(TrackMakePairs)
    \/ Counted(TrackApplyPairing)
    \/ Counted(TrackRelabelWithTracks)
    \/ Counted(\E path \in Paths : TrackSaveLinkedTracks(path))

Spec == Init /\ [][Next]_vars

(***************************************************************************)
(* MeasureMembraneIntensity: the pipeline.  Arrays are stacks of 2-D       *)
(* frames.  A mean sum / n is the pair <<sum, n>>.                         *)
(***************************************************************************)
ErrNoIntensity == "Intensity channel has not been set."
ErrBroadcast == "ValueError: operands could not be broadcast together"
ErrNoExported == "FileNotFoundError: /tmp/exported"

RECURSIVE GCD(_, _)
GCD(a, b) == IF b = 0 THEN a ELSE GCD(b, a % b)

\* the comparison with <= in the place of <
BelowTooBrightInclusive(I, n, sm, q, factor) ==
    LET g == GCD(1000, factor)
        lhs == (1000 \div g) * (n * I - sm)
        rhs == factor \div g
        var == n * q - sm * sm
    IN  IF n = 0 THEN FALSE
        ELSE IF lhs < 0 THEN TRUE
        ELSE lhs * lhs <= rhs * rhs * var

\* intensities < mean + factor * stddev for one pixel of intensity I, where
\* the n values under the labels have the sum s and the sum of squares q:
\* n * I - s < factor * sqrt(n * q - s * s).  The factor is in thousandths;
\* the two sides are divided by what 1000 and the factor have in common.
\* With no value under a label mean and stddev are nan and nothing is below.
BelowTooBright(I, n, sm, q, factor) ==
    LET g == GCD(1000, factor)
        lhs == (1000 \div g) * (n * I - sm)
        rhs == factor \div g
        var == n * q - sm * sm
    IN  IF n = 0 THEN FALSE
        ELSE IF lhs < 0 THEN TRUE
        ELSE lhs * lhs < rhs * rhs * var

\* remove_outlier_intensities: the mask of one frame
OutlierMask(intensities, labels, factor) ==
    LET under == {p \in FramePixels(labels) : Px(labels, p) > 0}
        n == Cardinality(under)
        sm == SumF([p \in under |-> Px(intensities, p)])
        q == SumF([p \in under |-> Px(intensities, p) * Px(intensities, p)])
    IN  [r \in 1..Len(intensities) |-> [c \in 1..Len(intensities[1]) |->
            BelowTooBright(intensities[r][c], n, sm, q, factor)]]

\* the loop over the frames of the intensity channel
RECURSIVE OutlierLoop(_, _, _)
OutlierLoop(self, t, mask) ==
    IF t > Len(self.intensity_channel.data) THEN mask
    ELSE OutlierLoop(self, t + 1,
            Append(mask, OutlierMask(self.intensity_channel.data[t],
                                     self.label_maps.data[t], self.factor)))

\* remove_outlier_intensities: the mask, frame by frame, and what it raised
RemoveOutlierIntensitiesF(self) ==
    IF self.intensity_channel = None THEN [mask |-> None, raised |-> ErrNoIntensity]
    ELSE IF self.label_maps = None THEN [mask |-> None, raised |-> ErrNoneType]
    ELSE IF Len(self.intensity_channel.data) > Len(self.label_maps.data)
         THEN [mask |-> None, raised |-> ErrIndex]
    ELSE [mask |-> OutlierLoop(self, 1, <<>>), raised |-> NoError]

\* scipy.ndimage.binary_erosion, default structuring element (the pixel and
\* its 4 neighbours), everything outside the frame counting as background
Cross(p) == {p, <<p[1] - 1, p[2]>>, <<p[1] + 1, p[2]>>, <<p[1], p[2] - 1>>, <<p[1], p[2] + 1>>}

RECURSIVE BinaryErosion(_, _)
BinaryErosion(mask, iterations) ==
    IF iterations = 0 \/ mask = {} THEN mask
    ELSE BinaryErosion({p \in mask : Cross(p) \subseteq mask}, iterations - 1)

\* numpy's | on two non-negative integers
RECURSIVE BitOr(_, _)
BitOr(a, b) ==
    IF a = 0 THEN b
    ELSE IF b = 0 THEN a
    ELSE (IF a % 2 = 1 \/ b % 2 = 1 THEN 1 ELSE 0) + 2 * BitOr(a \div 2, b \div 2)

\* numpy's uint8, the type of `mask`
Uint8Modulus == 256

\* the loop body with `rings = mask * value`
OutlinesOfValueWholeMask(lab, value, thickness) ==
    LET mask == Region(lab, value)
        eroded == BinaryErosion(mask, thickness)
    IN  << [r \in 1..Len(lab) |-> [c \in 1..Len(lab[1]) |->
                IF <<r - 1, c - 1>> \in mask THEN value ELSE 0]],
           [r \in 1..Len(lab) |-> [c \in 1..Len(lab[1]) |->
                IF <<r - 1, c - 1>> \in eroded THEN value ELSE 0]] >>

\* the body of the loop over unique_vals: <<rings, inner>> of one value
OutlinesOfValue(lab, value, thickness) ==
    LET mask == Region(lab, value)
        eroded == BinaryErosion(mask, thickness)
        bit(S, r, c) == IF <<r - 1, c - 1>> \in S THEN 1 ELSE 0
    IN  << [r \in 1..Len(lab) |-> [c \in 1..Len(lab[1]) |->
                ((bit(mask, r, c) - bit(eroded, r, c)) % Uint8Modulus) * value]],
           [r \in 1..Len(lab) |-> [c \in 1..Len(lab[1]) |->
                bit(eroded, r, c) * value]] >>

\* the loop over unique_vals, which is sorted: <<buffer_rings, buffer_inner>>
RECURSIVE OutlinesLoop(_, _, _, _, _)
OutlinesLoop(lab, unique_vals, i, thickness, buffers) ==
    IF i > Len(unique_vals) THEN buffers
    ELSE IF unique_vals[i] = 0
         THEN OutlinesLoop(lab, unique_vals, i + 1, thickness, buffers)
    ELSE LET one == OutlinesOfValue(lab, unique_vals[i], thickness) IN
         OutlinesLoop(lab, unique_vals, i + 1, thickness,
            << [r \in 1..Len(lab) |-> [c \in 1..Len(lab[1]) |->
                    BitOr(buffers[1][r][c], one[1][r][c])]],
               [r \in 1..Len(lab) |-> [c \in 1..Len(lab[1]) |->
                    BitOr(buffers[2][r][c], one[2][r][c])]] >>)

\* labels_to_outlines: <<buffer_rings, buffer_inner>> of one frame
Outlines(lab, thickness) ==
    OutlinesLoop(lab, SortedSeq({Px(lab, p) : p \in FramePixels(lab)}), 1,
                 thickness,
                 <<Zeros(<<Len(lab), Len(lab[1])>>), Zeros(<<Len(lab), Len(lab[1])>>)>>)

\* the loop over the frames of the label maps
RECURSIVE FramesLoop(_, _, _)
FramesLoop(self, t, buffers) ==
    IF t > Len(self.label_maps.data) THEN buffers
    ELSE FramesLoop(self, t + 1,
            Append(buffers, Outlines(self.label_maps.data[t], self.membrane_thickness)))

\* labels_to_outlines: per frame <<buffer_rings, buffer_inner>>, and what it
\* raised
LabelsToOutlinesF(self) ==
    IF self.label_maps = None THEN [buffers |-> None, raised |-> ErrNoLabelMaps]
    ELSE [buffers |-> FramesLoop(self, 1, <<>>), raised |-> NoError]

\* outlines * discard_mask, frame by frame; a mask of one frame is broadcast
Masked(frames, mask) ==
    [t \in 1..Len(frames) |->
        LET m == IF Len(mask) = 1 THEN mask[1] ELSE mask[t] IN
        [r \in 1..Len(frames[t]) |-> [c \in 1..Len(frames[t][1]) |->
            IF m[r][c] THEN frames[t][r][c] ELSE 0]]]

\* regionprops(labels, intensities): per label, in ascending order,
\* (mean_intensity, sum of the intensities, area)
Measures(labels, intensities) ==
    LET vals == SortedSeq({Px(labels, p) : p \in FramePixels(labels)} \ {0}) IN
    [i \in 1..Len(vals) |->
        LET S == Region(labels, vals[i])
            total == SumF([p \in S |-> Px(intensities, p)])
        IN  [label |-> vals[i],
             mean_intensity |-> <<total, Cardinality(S)>>,
             integrated |-> total,
             area |-> Cardinality(S)]]

\* the first loop of a frame fills results_t with 3-tuples
RECURSIVE RingLoop(_, _, _)
RingLoop(measures_ring, i, results_t) ==
    IF i > Len(measures_ring) THEN results_t
    ELSE RingLoop(measures_ring, i + 1,
                  DictSet(results_t, measures_ring[i].label,
                          <<measures_ring[i].mean_intensity,
                            measures_ring[i].integrated,
                            measures_ring[i].area>>))

\* the second loop extends the tuple of a label that has a ring
RECURSIVE InnerLoop(_, _, _)
\* the second loop recording a label that has no ring as well
RECURSIVE InnerLoopEveryLabel(_, _, _)
InnerLoopEveryLabel(measures_inner, i, results_t) ==
    IF i > Len(measures_inner) THEN results_t
    ELSE InnerLoopEveryLabel(measures_inner, i + 1,
            DictSet(results_t, measures_inner[i].label,
                    (IF measures_inner[i].label \in DictKeys(results_t)
                     THEN DictGet(results_t, measures_inner[i].label)
                     ELSE <<>>) \o
                    <<measures_inner[i].mean_intensity,
                      measures_inner[i].integrated,
                      measures_inner[i].area>>))

InnerLoop(measures_inner, i, results_t) ==
    IF i > Len(measures_inner) THEN results_t
    ELSE IF measures_inner[i].label \notin DictKeys(results_t)
         THEN InnerLoop(measures_inner, i + 1, results_t)
         ELSE InnerLoop(measures_inner, i + 1,
                        DictSet(results_t, measures_inner[i].label,
                                DictGet(results_t, measures_inner[i].label) \o
                                <<measures_inner[i].mean_intensity,
                                  measures_inner[i].integrated,
                                  measures_inner[i].area>>))

\* get_integrated_intensity writes two files named after a random number;
\* the model keeps the names without the number
ExportedFiles == {"/tmp/exported/intensity-<n>.tif", "/tmp/exported/label-<n>.tif"}

\* measure_intensities, frames t.. : the results, the file system after and
\* what was raised
RECURSIVE MeasureFrames(_, _, _, _)
MeasureFrames(self, t, results, fsys) ==
    IF t > Len(self.rings.data)
    THEN [results |-> results, fs |-> fsys, raised |-> NoError]
    ELSE IF t > Len(self.intensity_channel.data)
    THEN [results |-> results, fs |-> fsys, raised |-> ErrIndex]
    ELSE LET measures_ring == Measures(self.rings.data[t], self.intensity_channel.data[t])
             measures_inner == Measures(self.inner.data[t], self.intensity_channel.data[t])
         IN  IF Len(measures_ring) = 0
             THEN MeasureFrames(self, t + 1, Append(results, EmptyDict), fsys)
             ELSE IF ~fsys.exported
             THEN [results |-> results, fs |-> fsys, raised |-> ErrNoExported]
             ELSE MeasureFrames(self, t + 1,
                    Append(results,
                           InnerLoop(measures_inner, 1,
                                     RingLoop(measures_ring, 1, EmptyDict))),
                    [fsys EXCEPT !.files = @ \cup ExportedFiles])

ErrNoRings == "Outlines have not been computed."
ErrNoInner == "Inner labels have not been computed."

\* measure_intensities: the object and the file system after, what was raised;
\* the list of results is the record [list |-> ...], so that it compares
\* with None
MeasureIntensitiesF(self, fsys) ==
    IF self.rings = None THEN [obj |-> self, fs |-> fsys, raised |-> ErrNoRings]
    ELSE IF self.inner = None THEN [obj |-> self, fs |-> fsys, raised |-> ErrNoInner]
    ELSE LET m == MeasureFrames(self, 1, <<>>, fsys) IN
         IF m.raised # NoError THEN [obj |-> self, fs |-> m.fs, raised |-> m.raised]
         ELSE [obj |-> [self EXCEPT !.results = [list |-> m.results]], fs |-> m.fs,
               raised |-> NoError]

\* run() up to the assignment of rings and inner
MeasureRunOutlines(self) ==
    IF self.label_maps = None THEN [obj |-> self, raised |-> ErrNoLabelMaps]
    ELSE IF self.intensity_channel = None THEN [obj |-> self, raised |-> ErrNoIntensity]
    ELSE LET discard_mask == RemoveOutlierIntensitiesF(self)
             both == LabelsToOutlinesF(self).buffers
         IN  IF discard_mask.raised # NoError
             THEN [obj |-> self, raised |-> discard_mask.raised]
             ELSE IF Len(discard_mask.mask) \notin {1, Len(both)}
             THEN [obj |-> self, raised |-> ErrBroadcast]
             ELSE [obj |-> [self EXCEPT
                        !.rings = [shape |-> self.label_maps.shape,
                                   data |-> Masked([t \in 1..Len(both) |-> both[t][1]],
                                                   discard_mask.mask)],
                        !.inner = [shape |-> self.label_maps.shape,
                                   data |-> Masked([t \in 1..Len(both) |-> both[t][2]],
                                                   discard_mask.mask)]],
                   raised |-> NoError]

\* run(): the object and the file system after, what was raised
MeasureRunF(self, fsys) ==
    LET s1 == MeasureRunOutlines(self) IN
    IF s1.raised # NoError THEN [obj |-> s1.obj, fs |-> fsys, raised |-> s1.raised]
    ELSE MeasureIntensitiesF(s1.obj, fsys)

MeasureRun ==
    LET r == MeasureRunF(miw, fs) IN
    /\ miw' = r.obj
    /\ fs' = r.fs
    /\ last' = Call("miw.run", None, r.raised, miw)
    /\ UNCHANGED <<tcw, scw, gui>>

(***************************************************************************)
(* run() of the two workers                                                *)
(***************************************************************************)
\* an intensity frame: 9 on the bright pixels, 1 elsewhere
Shade(bright) ==
    [r \in 1..H |-> [c \in 1..W |-> IF <<r - 1, c - 1>> \in bright THEN 9 ELSE 1]]

RunStacks ==
    {Stack(<<FrameBorderOnly>>),
     Stack(<<FrameSingle, FrameSplit>>)}

IntensityStacks ==
    {Stack(<<Shade({})>>),
     Stack(<<Shade(P4), Shade(P7)>>)}

YX == <<"Y", "X">>

NextRun ==
    \/ Counted(\E data \in RunStacks : TrackSetLabelMaps(data))
    \/ Counted(\E data \in RunStacks, axes \in {TYX, YX} : TrackOverrideLabelMaps(data, axes))
    \/ Counted(TrackRun)
    \/ Counted(\E data \in RunStacks : MeasureSetLabelMaps(data))
    \/ Counted(\E data \in IntensityStacks : MeasureSetIntensityChannel(data))
    \/ Counted(\E data \in RunStacks, axes \in {TYX, YX} : MeasureOverrideLabelMaps(data, axes))
    \/ Counted(\E data \in IntensityStacks, axes \in {TYX, YX} : MeasureOverrideIntensityChannel(data, axes))
    \/ Counted(MeasureRun)

SpecRun == Init /\ [][NextRun]_vars

\* run() of the tracker with its two options
NextTrackRun ==
    \/ Counted(\E data \in RunStacks \cup Stacks : TrackSetLabelMaps(data))
    \/ Counted(\E mn \in BOOLEAN : TrackSetMergeNeighbors(mn))
    \/ Counted(\E ri \in BOOLEAN : TrackSetRemoveIncomplete(ri))
    \/ Counted(TrackRun)

SpecTrackRun == Init /\ [][NextTrackRun]_vars

(***************************************************************************)
(* Claims                                                                  *)
(***************************************************************************)
(***************************************************************************)
(* run() of the measurer on objects that have an inside.  A block of three *)
(* rows keeps its centre pixel after one erosion, so the membrane          *)
(* thickness is set to 1 on the way; with the factor set to 1 a bright     *)
(* ring is an outlier.                                                     *)
(***************************************************************************)
BlockA == (0..2) \X (1..3)
BlockB == (0..2) \X (4..6)
P9 == {<<1, 9>>}

\* two blocks side by side and one pixel apart from them
FrameBlocks == Paint(1 :> BlockA @@ 2 :> BlockB @@ 3 :> P9)
FrameOne == Paint(1 :> BlockA)

MeasureStacks ==
    {Stack(<<FrameBlocks>>),
     Stack(<<FrameBlocks, FrameOne>>)}

\* the ring of the first block is bright; the centre of the second block is
\* bright; nothing is bright
MeasureIntensities ==
    {Stack(<<Shade(BlockA \ {<<1, 2>>})>>),
     Stack(<<Shade({<<1, 5>>}), Shade({})>>)}

NextMeasure ==
    \/ Counted(\E data \in MeasureStacks : MeasureSetLabelMaps(data))
    \/ Counted(\E data \in MeasureIntensities : MeasureSetIntensityChannel(data))
    \/ Uncounted(MeasureSetMembraneThickness(1))
    \/ Uncounted(MeasureSetFactor(1000))
    \/ Counted(MeasureRun)

SpecMeasure == Init /\ [][NextMeasure]_vars

\* ---------------------------------------------------------------------
\* The results display (results_table.py) and the widget that opens it

\* a QTableWidget after init_ui: no row, no column, no item
QTableWidgetInit ==
    [columns |-> 0, rows |-> 0, column_headers |-> <<>>, row_headers |-> <<>>,
     items |-> [rc \in {} |-> None]]

ErrUnpack == "ValueError: not enough values to unpack (expected 6, got 3)"

Headers ==
    <<"Mean ring intensity", "Integrated ring intensity", "Ring area",
      "Mean inner intensity", "Integrated inner intensity", "Inner area">>

nHeaders == Len(Headers)

\* the text of an empty cell
Blank == [blank |-> TRUE]

\* round(x, 2) of a quotient sm / n, in hundredths, halves to the even side
RoundMean(m) ==
    LET q == (100 * m[1]) \div m[2]
        r == (100 * m[1]) % m[2]
    IN  IF 2 * r > m[2] \/ (2 * r = m[2] /\ q % 2 = 1) THEN q + 1 ELSE q

\* str(round(mean, 2)) if mean >= 0.0 else "" : a mean is a pair
\* <<sum, count>>; the quotient of an empty region is NaN, which is not >= 0
MeanText(m) ==
    IF m[2] > 0 /\ m[1] >= 0 THEN [blank |-> FALSE, hundredths |-> RoundMean(m)]
    ELSE Blank

\* str(round(x, 2)) if x >= 0.0 else "" for a whole number
NumberText(x) ==
    IF x >= 0 THEN [blank |-> FALSE, hundredths |-> 100 * x] ELSE Blank

\* QTableWidget.setItem: a position outside the table is ignored
SetItem(table, row, column, text) ==
    IF <<row, column>> \in DOMAIN table.items
    THEN [table EXCEPT !.items[<<row, column>>] = text]
    ELSE table

\* setColumnCount and setRowCount: the items inside the new size stay
Resize(table, columns, rows) ==
    [table EXCEPT !.columns = columns, !.rows = rows,
                  !.items = [rc \in (0..(rows - 1)) \X (0..(columns - 1)) |->
                                IF rc \in DOMAIN table.items
                                THEN table.items[rc] ELSE None]]

\* the six setItem calls of one label: its record is unpacked into six values
FillLabel(table, frame, i, v) ==
    LET t0 == SetItem(table, frame, i * nHeaders + 0, MeanText(v[1]))
        t1 == SetItem(t0, frame, i * nHeaders + 1, NumberText(v[2]))
        t2 == SetItem(t1, frame, i * nHeaders + 2, NumberText(v[3]))
        t3 == SetItem(t2, frame, i * nHeaders + 3, MeanText(v[4]))
        t4 == SetItem(t3, frame, i * nHeaders + 4, NumberText(v[5]))
    IN  SetItem(t4, frame, i * nHeaders + 5, NumberText(v[6]))

\* the loop over the records of frame `frame` (0-based), from the i-th
\* (0-based) on
RECURSIVE FillItems(_, _, _, _)
FillItems(table, frame, records, i) ==
    IF i >= Len(records) THEN [table |-> table, raised |-> NoError]
    ELSE IF Len(records[i + 1][2]) # nHeaders
    THEN [table |-> table, raised |-> ErrUnpack]
    ELSE FillItems(FillLabel(table, frame, i, records[i + 1][2]),
                   frame, records, i + 1)

\* the loop over the frames, from `frame` (0-based) on
RECURSIVE FillFrames(_, _, _)
FillFrames(table, data, frame) ==
    IF frame >= Len(data) THEN [table |-> table, raised |-> NoError]
    ELSE LET r == FillItems(table, frame, data[frame + 1], 0)
         IN  IF r.raised # NoError THEN r
             ELSE FillFrames(r.table, data, frame + 1)

\* the column headers: the six headers for every label of the first frame
ColumnHeaders(data) ==
    [c \in 1..(nHeaders * Len(data[1])) |->
        <<Headers[((c - 1) % nHeaders) + 1], data[1][((c - 1) \div nHeaders) + 1][1]>>]

\* FrameWiseResultsTable.set_data
SetDataF(table, data) ==
    IF Len(data) = 0 THEN [table |-> table, raised |-> NoError]
    ELSE LET columnHeaders == ColumnHeaders(data)
             rowHeaders == [i \in 1..Len(data) |-> i]
             sized == [Resize(table, Len(columnHeaders), Len(rowHeaders))
                          EXCEPT !.column_headers = columnHeaders,
                                 !.row_headers = rowHeaders]
         IN  FillFrames(sized, data, 0)

\* FrameWiseResultsTable(data, name): ResultsTable.__init__ builds the table
\* and calls set_data, then the subclass builds a new table and calls
\* set_data again
FrameWiseResultsTableNew(data) ==
    LET first == SetDataF(QTableWidgetInit, data)
        second == SetDataF(QTableWidgetInit, data)
    IN  IF first.raised # NoError THEN [obj |-> None, raised |-> first.raised]
        ELSE IF second.raised # NoError THEN [obj |-> None, raised |-> second.raised]
        ELSE [obj |-> [table |-> second.table, visible |-> FALSE],
              raised |-> NoError]

\* IntensitiesInMembraneWidget.open_results_table
OpenResultsTableF(self, data) ==
    IF data = None THEN [obj |-> self, raised |-> NoError]
    ELSE LET closed == IF self.rt = None THEN self
                       ELSE [self EXCEPT !.rt.visible = FALSE]
             r == FrameWiseResultsTableNew(data.list)
         IN  IF r.raised # NoError THEN [obj |-> closed, raised |-> r.raised]
             ELSE [obj |-> [closed EXCEPT !.rt = [r.obj EXCEPT !.visible = TRUE]],
                   raised |-> NoError]

\* last.arg keeps the results that were handed to the table
OpenResultsTable ==
    LET r == OpenResultsTableF(gui, miw.results) IN
    /\ gui' = r.obj
    /\ last' = Call("widget.open_results_table", [data |-> miw.results], r.raised, gui)
    /\ UNCHANGED <<tcw, miw, scw, fs>>

FrameTwo == Paint(1 :> BlockA @@ 2 :> BlockB)

\* label stacks for the display: with a one-pixel object (its record is
\* ring-only), without, and with more labels in the second frame than in the
\* first
ShowStacks ==
    {Stack(<<FrameBlocks>>), Stack(<<FrameOne>>), Stack(<<FrameOne, FrameTwo>>)}

\* intensities that vary inside every object, so that no frame is masked
\* out whole
ShowIntensities ==
    {Stack(<<Shade(BlockA \ {<<1, 2>>})>>),
     Stack(<<Shade(BlockA \ {<<1, 2>>}),
             Shade((BlockA \cup BlockB) \ {<<1, 2>>, <<1, 5>>})>>)}

NextShow ==
    \/ Counted(\E data \in ShowStacks : MeasureSetLabelMaps(data))
    \/ Counted(\E data \in ShowIntensities : MeasureSetIntensityChannel(data))
    \/ Uncounted(MeasureSetMembraneThickness(1))
    \/ Uncounted(MeasureSetFactor(1000))
    \/ Counted(MeasureRun)
    \/ Counted(OpenResultsTable)

SpecShow == Init /\ [][NextShow]_vars

\* ---------------------------------------------------------------------
\* relabel_with_tracks on identities near 2^16.  link_df numbers the tracks
\* of a recording from 0 on, so an identity of 2^16 needs more tracks than a
\* stack of the size checked here holds; the number link_df starts from is an
\* input instead.

\* first identities: small, and such that the identities of the table or the
\* ones apply_pairing adds pass 2^16
FirstIdentities == {1, Uint16Modulus - 4, Uint16Modulus - 1, Uint16Modulus}

\* the tracker after set_label_maps(data), labels_to_detections and
\* link_tracks when no two rows are linked and the numbers start at first - 1
Linked(data, first) ==
    LET s == LabelsToDetections(SetLabelMapsF(TrackCellsWorkerInit, data)[1], data)
    IN  LinkTracksF(s, [i \in 1..Len(s.detections.rows) |-> first - 2 + i])[1]

InitRelabel ==
    /\ tcw \in {Linked(data, first) : data \in Stacks, first \in FirstIdentities}
    /\ miw = MeasureMembraneIntensityInit
    /\ scw = SegmentCellsWorkerInit
    /\ fs \in [exported : BOOLEAN, files : {{}}]
    /\ gui = WidgetInit
    /\ calls = 0
    /\ last = Call("__init__", None, NoError, None)

NextRelabel ==
    \/ Counted(TrackIsolateFullTracks)
    \/ Counted(TrackMakePairs)
    \/ Counted(TrackApplyPairing)
    \/ Counted(TrackRelabelWithTracks)

SpecRelabel == InitRelabel /\ [][NextRelabel]_vars

\* ---------------------------------------------------------------------
\* the post-processing stages called one by one, with and without a time
\* axis: ZYX reads the same stacks as TYX

ZYX == <<"Z", "Y", "X">>

PostStacks ==
    {Stack(<<FrameTwoPairs>>),
     Stack(<<FrameSingle, FramePair>>),
     Stack(<<FrameSingle, FrameBorderOnly>>)}

NextPost ==
    \/ Uncounted(\E axes \in {TYX, ZYX} : TrackSetAxes(axes))
    \/ Counted(\E data \in PostStacks : TrackSetLabelMaps(data))
    \/ Counted(TrackRun)
    \/ Counted(TrackIsolateFullTracks)
    \/ Counted(TrackMakePairs)
    \/ Counted(TrackApplyPairing)

SpecPost == Init /\ [][NextPost]_vars

(***************************************************************************)
(* The widget (_widget.py) and its worker threads (qt_workers.py).  The    *)
(* handlers run on the GUI thread, one at a time; a worker's run() is one  *)
(* step of its thread.  The viewer belongs to the user, who can add, edit  *)
(* and remove layers at any time: what a handler reads from it is an input *)
(* of the handler, None where the layer is not there.                      *)
(***************************************************************************)
\* the buttons whose clicked signal is connected to a handler
LaunchControls ==
    {"btn_run", "track_btn", "keep_labels_btn", "measure_btn", "clear_state_button"}

\* set_active_ui that leaves the clear button as it is
SetActiveUiButClear(self, status) ==
    [self EXCEPT !.enabled =
        [c \in Controls |-> IF c = "clear_state_button" THEN self.enabled[c]
                            ELSE status]]

SetActiveUi(self, status) ==
    [self EXCEPT !.enabled = [c \in Controls |-> status]]

\* QThread.start() on a new thread whose started signal runs the worker
StartThread(self, worker) ==
    [self EXCEPT !.threads = Append(@, [worker |-> worker, phase |-> "started"])]

\* the values of the spin boxes: cell_diameter_spinbox and le_factor keep
\* their defaults, le_thickness is the default or 1
CellDiameter == 43
FactorDefault == 2000
ThicknessDefault == 5
ThicknessValues == {1, ThicknessDefault}

\* launch_segmentation up to the start of the thread: the worker after, and
\* what was raised
LaunchSegmentationF(self, data) ==
    Then(SegmentSetAxesF(self, TYX), LAMBDA s : SetSegmentationChannelF(s, data))

\* launch_tracking up to the start of the thread
LaunchTrackingF(self, data, sr, mn) ==
    Then(Then(Then(TrackSetAxesF(self, TYX),
                   LAMBDA s : SetSearchRangeF(s, sr)),
              LAMBDA s : <<[s EXCEPT !.merge_neighbors = mn,
                                     !.remove_incomplete = TRUE], NoError>>),
         LAMBDA s : SetLabelMapsF(s, data))

\* launch_measurement up to the start of the thread
LaunchMeasurementF(self, labeled, intensities, factor, thickness) ==
    Then(Then(Then(Then(MeasureSetAxesF(self, TYX),
                        LAMBDA s : SetLabelMapsF(s, labeled)),
                   LAMBDA s : SetFactorF(s, factor)),
              LAMBDA s : SetMembraneThicknessF(s, thickness)),
         LAMBDA s : SetIntensityChannelF(s, intensities))

\* a click on btn_run; data is what get_segmentation_image returns
LaunchSegmentation(data) ==
    /\ gui.enabled["btn_run"]
    /\ IF data = None
       THEN /\ last' = Call("widget.launch_segmentation", [started |-> FALSE], NoError, gui)
            /\ UNCHANGED <<scw, gui>>
       ELSE LET r == LaunchSegmentationF(scw, data) IN
            /\ scw' = r[1]
            /\ gui' = IF r[2] # NoError THEN gui
                      ELSE SetActiveUi(StartThread(gui, "QtSegmentCells"), FALSE)
            /\ last' = Call("widget.launch_segmentation",
                            [started |-> r[2] = NoError], r[2], gui)
    /\ UNCHANGED <<tcw, miw, fs>>

\* a click on track_btn; data is what get_labeled_cells returns, mn the
\* state of the check box
LaunchTracking(data, mn) ==
    /\ gui.enabled["track_btn"]
    /\ IF data = None
       THEN /\ last' = Call("widget.launch_tracking", [started |-> FALSE], NoError, gui)
            /\ UNCHANGED <<tcw, gui>>
       ELSE LET r == LaunchTrackingF(tcw, data, CellDiameter, mn) IN
            /\ tcw' = r[1]
            /\ gui' = IF r[2] # NoError THEN gui
                      ELSE SetActiveUi(StartThread(gui, "QtTrackCells"), FALSE)
            /\ last' = Call("widget.launch_tracking",
                            [started |-> r[2] = NoError], r[2], gui)
    /\ UNCHANGED <<miw, scw, fs>>

\* a click on measure_btn
LaunchMeasurement(labeled, intensities, thickness) ==
    /\ gui.enabled["measure_btn"]
    /\ IF labeled = None \/ intensities = None
       THEN /\ last' = Call("widget.launch_measurement", [started |-> FALSE], NoError, gui)
            /\ UNCHANGED <<miw, gui>>
       ELSE LET r == LaunchMeasurementF(miw, labeled, intensities,
                                        FactorDefault, thickness) IN
            /\ miw' = r[1]
            /\ gui' = IF r[2] # NoError THEN gui
                      ELSE SetActiveUi(StartThread(gui, "QtMeasureMembranes"), FALSE)
            /\ last' = Call("widget.launch_measurement",
                            [started |-> r[2] = NoError], r[2], gui)
    /\ UNCHANGED <<tcw, scw, fs>>

\* a click on keep_labels_btn: the handler rewrites what a layer holds and
\* starts no thread
LaunchKeepLabels ==
    /\ gui.enabled["keep_labels_btn"]
    /\ last' = Call("widget.launch_keep_labels", [started |-> FALSE], NoError, gui)
    /\ UNCHANGED <<tcw, miw, scw, fs, gui>>

\* a click on clear_state_button
ClearState ==
    /\ gui.enabled["clear_state_button"]
    /\ scw' = SegmentCellsWorkerInit
    /\ tcw' = TrackCellsWorkerInit
    /\ miw' = MeasureMembraneIntensityInit
    /\ gui' = [gui EXCEPT !.rt = None]
    /\ last' = Call("widget.clear_state", [started |-> FALSE], NoError, gui)
    /\ UNCHANGED fs

\* what Cellpose answers for a channel of n frames: one of these frames for
\* every frame
SegmentAnswers(channel) ==
    {Stack([t \in 1..channel.shape[1] |-> f]) : f \in {FrameSingle, FrameBorderOnly}}

\* the worker's run() returned: finished is emitted, the thread quits and
\* its finished signal is queued for the widget; run() raised: nothing is
\* emitted and the event loop of the thread goes on
AfterRun(self, i, raised) ==
    [self EXCEPT !.threads[i].phase =
        IF raised = NoError THEN "finished" ELSE "looping"]

\* QtSegmentCells.run on thread i
QtSegmentCellsRun(i) ==
    /\ gui.threads[i] = [worker |-> "QtSegmentCells", phase |-> "started"]
    /\ \E label_maps \in SegmentAnswers(scw.segmentation_channel) :
        /\ scw' = [scw EXCEPT !.label_maps = label_maps]
        /\ gui' = AfterRun(gui, i, NoError)
        /\ last' = Call("QtSegmentCells.run", None, NoError, gui)
    /\ UNCHANGED <<tcw, miw, fs>>

\* what run() of the tracker may end in: <<object after, raised>> for
\* every answer of link_df and every order of iteration
TrackRunResults(self) ==
    LET d == TrackRunDetect(self) IN
    UNION {LET l == TrackRunLink(d, particle) IN
           {TrackRunMerge(l, order) : order \in RunOrders(l)} :
                particle \in RunLinkOutcomes(d)}

\* QtTrackCells.run on thread i
QtTrackCellsRun(i) ==
    /\ gui.threads[i] = [worker |-> "QtTrackCells", phase |-> "started"]
    /\ \E r \in TrackRunResults(tcw) :
        /\ tcw' = r[1]
        /\ gui' = AfterRun(gui, i, r[2])
        /\ last' = Call("QtTrackCells.run", None, r[2], gui)
    /\ UNCHANGED <<miw, scw, fs>>

\* QtMeasureMembranes.run on thread i
QtMeasureMembranesRun(i) ==
    /\ gui.threads[i] = [worker |-> "QtMeasureMembranes", phase |-> "started"]
    /\ LET r == MeasureRunF(miw, fs) IN
        /\ miw' = r.obj
        /\ fs' = r.fs
        /\ gui' = AfterRun(gui, i, r.raised)
        /\ last' = Call("QtMeasureMembranes.run", None, r.raised, gui)
    /\ UNCHANGED <<tcw, scw>>

\* the thread i is over: it leaves the list when its finished signal is
\* delivered
Delivered(self, i) ==
    [self EXCEPT !.threads = SubSeq(@, 1, i - 1) \o SubSeq(@, i + 1, Len(@))]

ErrKey == "KeyError"

\* finish_segment_cells
FinishSegmentCellsF(self, worker) ==
    IF Len(worker.label_maps.data) = 0 THEN [obj |-> self, raised |-> NoError]
    ELSE [obj |-> SetActiveUi(self, TRUE), raised |-> NoError]

\* finish_tracking_cells; present: the viewer still has the layer of the
\* labels
FinishTrackingCellsF(self, worker, present) ==
    IF worker.linked = None THEN [obj |-> self, raised |-> NoError]
    ELSE IF ~present
    THEN [obj |-> self, raised |-> ErrKey]
    ELSE [obj |-> SetActiveUi(self, TRUE), raised |-> NoError]

\* finish_measure_membranes; present: the viewer still has the layer of the
\* segmentation channel
FinishMeasureMembranesF(self, worker, present) ==
    IF worker.rings = None \/ worker.inner = None
    THEN [obj |-> self, raised |-> NoError]
    ELSE IF ~present THEN [obj |-> self, raised |-> ErrKey]
    ELSE LET r == OpenResultsTableF(self, worker.results)
         IN  IF r.raised # NoError THEN r
             ELSE [obj |-> SetActiveUi(r.obj, TRUE), raised |-> NoError]

\* the finished signal of thread i reaches the widget
FinishSegmentCells(i) ==
    /\ gui.threads[i] = [worker |-> "QtSegmentCells", phase |-> "finished"]
    /\ LET r == FinishSegmentCellsF(Delivered(gui, i), scw) IN
        /\ gui' = r.obj
        /\ last' = Call("widget.finish_segment_cells", None, r.raised, gui)
    /\ UNCHANGED <<tcw, miw, scw, fs>>

FinishTrackingCells(i, present) ==
    /\ gui.threads[i] = [worker |-> "QtTrackCells", phase |-> "finished"]
    /\ LET r == FinishTrackingCellsF(Delivered(gui, i), tcw, present) IN
        /\ gui' = r.obj
        /\ last' = Call("widget.finish_tracking_cells", None, r.raised, gui)
    /\ UNCHANGED <<tcw, miw, scw, fs>>

FinishMeasureMembranes(i, present) ==
    /\ gui.threads[i] = [worker |-> "QtMeasureMembranes", phase |-> "finished"]
    /\ LET r == FinishMeasureMembranesF(Delivered(gui, i), miw, present) IN
        /\ gui' = r.obj
        /\ last' = Call("widget.finish_measure_membranes", None, r.raised, gui)
    /\ UNCHANGED <<tcw, miw, scw, fs>>

\* what the handlers read from the viewer
SegmentImages == {None, Array(<<0, H, W>>), Array(<<1, H, W>>), Array(<<H, W>>)}

TrackLayers == {None, Stack(<<FrameTwoPairs>>), Stack(<<FrameBorderOnly>>)}

MeasureLayers == {None, Stack(<<FrameOne>>), Stack(<<FrameBlocks>>)}

IntensityLayers == {None, Stack(<<Shade(BlockA \ {<<1, 2>>})>>)}

Threads == 1..Len(gui.threads)

\* the clicks of a behaviour are counted up to this number
MaxClicks == 2

Clicked(A) == calls < MaxClicks /\ A /\ calls' = calls + 1

NextWidget ==
    \/ Clicked(\E data \in SegmentImages : LaunchSegmentation(data))
    \/ Clicked(\E data \in TrackLayers, mn \in BOOLEAN : LaunchTracking(data, mn))
    \/ Clicked(\E labeled \in MeasureLayers, intensities \in IntensityLayers,
                  thickness \in ThicknessValues :
                    LaunchMeasurement(labeled, intensities, thickness))
    \/ Clicked(LaunchKeepLabels)
    \/ Clicked(ClearState)
    \/ Uncounted(\E i \in Threads : QtSegmentCellsRun(i))
    \/ Uncounted(\E i \in Threads : QtTrackCellsRun(i))
    \/ Uncounted(\E i \in Threads : QtMeasureMembranesRun(i))
    \/ Uncounted(\E i \in Threads : FinishSegmentCells(i))
    \/ Uncounted(\E i \in Threads, present \in BOOLEAN : FinishTrackingCells(i, present))
    \/ Uncounted(\E i \in Threads, present \in BOOLEAN : FinishMeasureMembranes(i, present))

SpecWidget == Init /\ [][NextWidget]_vars

\* a thread that was started and whose worker has not run yet; the step of
\* such a thread (Qt*.run) is always possible
Started == \E i \in Threads : gui.threads[i].phase = "started"

\* the run() of the worker objects, in their threads
Scheduled ==
    \/ \E i \in Threads : QtSegmentCellsRun(i)
    \/ \E i \in Threads : QtTrackCellsRun(i)
    \/ \E i \in Threads : QtMeasureMembranesRun(i)

\* the slots connected to the finished signals, called by the event loop of
\* the GUI thread
Delivery ==
    \/ \E i \in Threads : FinishSegmentCells(i)
    \/ \E i \in Threads, present \in BOOLEAN : FinishTrackingCells(i, present)
    \/ \E i \in Threads, present \in BOOLEAN : FinishMeasureMembranes(i, present)

\* a started thread runs its worker (Scheduled is possible exactly when
\* Started holds and ends it, so that weak fairness of Scheduled is the
\* same as Started not holding forever), and a queued finished signal is
\* delivered by the event loop of the GUI thread
SpecWidgetLive ==
    /\ Init /\ [][NextWidget]_vars
    /\ []<>~Started
    /\ WF_vars(Uncounted(Delivery))

(***************************************************************************)
(* Overrides followed by runs, on both workers                             *)
(***************************************************************************)
TZYX == <<"T", "Z", "Y", "X">>

\* axes that fit a stack of frames, axes with a duplicate, axes of rank 4
OverrideAxes == {TYX, <<"T", "T", "X">>, TZYX}

\* a stack of one frame and a single frame
OverrideLabels == {Stack(<<FrameBlocks>>), [shape |-> <<H, W>>, data |-> FrameBlocks]}

OverrideChannels ==
    {Stack(<<Shade(BlockA \ {<<1, 2>>})>>),
     [shape |-> <<H, W>>, data |-> Shade({})]}

NextOverride ==
    \/ Counted(\E labels \in OverrideLabels, axes \in OverrideAxes :
                   TrackOverrideLabelMaps(labels, axes))
    \/ Counted(TrackRun)
    \/ Counted(\E labels \in OverrideLabels, axes \in OverrideAxes :
                   MeasureOverrideLabelMaps(labels, axes))
    \/ Counted(\E channel \in OverrideChannels, axes \in OverrideAxes :
                   MeasureOverrideIntensityChannel(channel, axes))
    \/ Counted(MeasureRun)

SpecOverride == Init /\ [][NextOverride]_vars

Rejected == last.raised # NoError

\* C1: TrackCellsWorker.set_axes accepts a candidate exactly when its tags
\* are pairwise distinct, all among T, Z, Y, X, in the canonical order and,
\* with label maps bound, as many as the label maps have dimensions; an
\* accepted candidate becomes the stored axes and changes nothing else; a
\* rejected one raises and leaves the worker as it was.
C1_SetAxesAcceptsIff ==
    last.op = "tcw.set_axes" =>
        LET f == last.arg.facts IN
        /\ (~Rejected) <=> (/\ f.distinct
                            /\ f.tags
                            /\ f.inorder
                            /\ (f.bound = -1 \/ f.len = f.bound))
        /\ Rejected => tcw = last.pre
        /\ ~Rejected => /\ Len(tcw.axes) = f.len
                        /\ [tcw EXCEPT !.axes = last.pre.axes] = last.pre

\* a candidate of distinct tags of the right number, out of order, was
\* rejected while label maps were bound
C1_Witness ==
    /\ last.op = "tcw.set_axes"
    /\ last.raised = ErrOrder
    /\ last.arg.facts.bound = last.arg.facts.len
    /\ tcw.label_maps # None

\* C2: the measurer's and the segmenter's validators answer as the tracker's
\* does for the same candidate and the same bound array, and reject every
\* candidate whose tags are out of the canonical order.
C2_SameValidator ==
    last.op \in {"miw.set_axes", "scw.set_axes"} =>
        /\ (~Rejected) <=> (last.arg.tracker = NoError)
        /\ ~last.arg.facts.inorder => Rejected

\* C3: every array bound to a worker has as many dimensions as the worker's
\* axes has tags, and an accepted axis change kept that number.
BoundRankIsAxesLen(self, field) ==
    self[field] # None => Ndim(self[field]) = Len(self.axes)

C3_BoundRankIsAxesLen ==
    /\ BoundRankIsAxesLen(tcw, "label_maps")
    /\ BoundRankIsAxesLen(miw, "label_maps")
    /\ BoundRankIsAxesLen(miw, "intensity_channel")
    /\ (last.op \in {"tcw.set_axes", "miw.set_axes"} /\ ~Rejected
            /\ last.pre.label_maps # None)
        => Ndim(last.pre.label_maps) = last.arg.facts.len

C5_NoLinkedRaises ==
    (/\ last.op \in {"tcw.save_linked_tracks", "tcw.make_pairs",
                     "tcw.apply_pairing", "tcw.isolate_full_tracks"}
     /\ last.pre.linked = None)
        => /\ Rejected
           /\ tcw.linked = last.pre.linked
           /\ tcw.pairs = last.pre.pairs
           /\ tcw.tracked_labels = last.pre.tracked_labels

\* apply_pairing was called on a worker with label maps and no linked table
C5_Witness ==
    /\ last.op = "tcw.apply_pairing"
    /\ last.pre.linked = None
    /\ last.pre.label_maps # None

\* C6: run() of either worker, called with a required input unbound, raises
\* the error of its first check and leaves the worker, its result fields
\* included, as it was.
C6_RunChecksInputs ==
    /\ (last.op = "miw.run" /\ last.pre.label_maps = None)
        => (last.raised = ErrNoLabelMaps /\ miw = last.pre)
    /\ (last.op = "miw.run" /\ last.pre.label_maps # None
            /\ last.pre.intensity_channel = None)
        => (last.raised = ErrNoIntensity /\ miw = last.pre)
    /\ (last.op = "tcw.run" /\ last.pre.label_maps = None)
        => (last.raised = ErrNoLabelMaps /\ tcw = last.pre)

\* the tracker's run() was called without label maps on a worker that holds
\* the results of an earlier run
C6_Witness ==
    /\ last.op = "tcw.run"
    /\ last.pre.label_maps = None
    /\ last.pre.linked # None
    /\ last.pre.tracked_labels # None
    /\ Len(last.pre.detections.rows) > 0

\* the rows of a table that belong to label L of frame t
RowsOf(table, t, L) ==
    {i \in 1..Len(table.rows) :
        table.rows[i].frame = t /\ table.rows[i].orig_label = L}

\* C7: after run(), in every frame, a label with a pixel on the border has
\* no row in detections or linked and only zeros in tracked_labels, every
\* other nonzero label has exactly one detection row, and no row is of
\* anything else.
C7_BorderObjectsExcluded ==
    (last.op = "tcw.run" /\ ~Rejected)
        => \A t \in 1..Len(tcw.label_maps.data) :
            LET f == tcw.label_maps.data[t]
                values == {Px(f, p) : p \in FramePixels(f)} \ {0}
            IN  /\ \A L \in values :
                    IF \E p \in Region(f, L) : OnBorder(f, p)
                    THEN /\ RowsOf(tcw.detections, t - 1, L) = {}
                         /\ RowsOf(tcw.linked, t - 1, L) = {}
                         /\ \A p \in Region(f, L) :
                                Px(tcw.tracked_labels.data[t], p) = 0
                    ELSE Cardinality(RowsOf(tcw.detections, t - 1, L)) = 1
                /\ \A i \in 1..Len(tcw.detections.rows) :
                    tcw.detections.rows[i].frame = t - 1
                        => tcw.detections.rows[i].orig_label \in values

\* the track has a row at the last frame of a stack of T frames
HasRowAtLast(rows, p, T) ==
    \E i \in 1..Len(rows) : rows[i].particle = p /\ rows[i].frame = T - 1

Items(d) == {d[i] : i \in 1..Len(d)}

\* C9: make_pairs stores a -> b and b -> a exactly for the tracks a, b of the
\* last frame that are each other's only neighbour; tracks alone, in a chain
\* or in a triangle get no entry; the map is symmetric, maps no track to
\* itself, and is the same whatever the order of iteration.
C9_MakePairs ==
    (last.op = "tcw.make_pairs" /\ last.pre.linked # None)
        => LET adj == Adjacency(LastPoints(last.pre))
               expected == {ab \in (DOMAIN adj) \X (DOMAIN adj) :
                               /\ ab[1] # ab[2]
                               /\ adj[ab[1]] = {ab[2]}
                               /\ adj[ab[2]] = {ab[1]}}
           IN  /\ ~Rejected
               /\ Items(tcw.pairs) = expected
               /\ Cardinality(DictKeys(tcw.pairs)) = Len(tcw.pairs)
               /\ \A a \in DictKeys(tcw.pairs) :
                    /\ DictGet(tcw.pairs, a) # a
                    /\ DictGet(tcw.pairs, a) \in DictKeys(tcw.pairs)
                    /\ DictGet(tcw.pairs, DictGet(tcw.pairs, a)) = a
               /\ [tcw EXCEPT !.pairs = last.pre.pairs] = last.pre

\* two pairs were found in one frame
C9_Witness ==
    /\ last.op = "tcw.make_pairs"
    /\ ~Rejected
    /\ Len(tcw.pairs) = 4

\* C10: apply_pairing with a pair map that is not empty gives all rows of
\* the two tracks of a pair one identity greater than every identity of the
\* table before, different pairs different identities, and changes nothing
\* else: not the identity of another track, not another column, not the
\* number of rows.
C10_ApplyPairing ==
    (/\ last.op = "tcw.apply_pairing"
     /\ last.pre.linked # None
     /\ Len(last.pre.pairs) > 0)
        => LET before == last.pre.linked.rows
               after == tcw.linked.rows
               paired == DictKeys(last.pre.pairs)
               ids == {before[i].particle : i \in 1..Len(before)}
           IN  /\ ~Rejected
               /\ Len(after) = Len(before)
               /\ [tcw EXCEPT !.linked = last.pre.linked] = last.pre
               /\ \A i \in 1..Len(before) :
                    /\ [after[i] EXCEPT !.particle = before[i].particle] = before[i]
                    /\ before[i].particle \notin paired
                        => after[i].particle = before[i].particle
                    /\ before[i].particle \in paired
                        => \A id \in ids : after[i].particle > id
               /\ \A i, j \in 1..Len(before) :
                    (before[i].particle \in paired /\ before[j].particle \in paired)
                        => ((after[i].particle = after[j].particle)
                            <=> (\/ before[i].particle = before[j].particle
                                 \/ DictGet(last.pre.pairs, before[i].particle)
                                        = before[j].particle))

\* two pairs with rows in the table were merged
C10_Witness ==
    /\ last.op = "tcw.apply_pairing"
    /\ ~Rejected
    /\ Len(last.pre.pairs) = 4
    /\ \A a \in DictKeys(last.pre.pairs) :
            \E i \in 1..Len(last.pre.linked.rows) :
                last.pre.linked.rows[i].particle = a

\* C11: after run(), whatever remove_incomplete and merge_neighbors are, no
\* two rows of the linked table share both the track identity and the frame.
C11_OneRowPerTrackAndFrame ==
    (last.op = "tcw.run" /\ ~Rejected)
        => \A i, j \in 1..Len(tcw.linked.rows) :
            (/\ tcw.linked.rows[i].particle = tcw.linked.rows[j].particle
             /\ tcw.linked.rows[i].frame = tcw.linked.rows[j].frame) => i = j

\* C12: after run(), whatever the flags are, every (frame, original label)
\* has at most one row of the linked table, hence at most one track identity.
C12_OneRowPerFrameAndLabel ==
    (last.op = "tcw.run" /\ ~Rejected)
        => \A i, j \in 1..Len(tcw.linked.rows) :
            (/\ tcw.linked.rows[i].frame = tcw.linked.rows[j].frame
             /\ tcw.linked.rows[i].orig_label = tcw.linked.rows[j].orig_label)
                => i = j

\* a second run() on a worker that already holds a linked table, giving
\* several rows in one frame
C12_Witness ==
    /\ last.op = "tcw.run"
    /\ ~Rejected
    /\ last.pre.linked # None
    /\ \E i, j \in 1..Len(tcw.linked.rows) :
        i # j /\ tcw.linked.rows[i].frame = tcw.linked.rows[j].frame

\* C13: relabel_with_tracks (alone or as the last stage of run) leaves
\* label_maps as it was and gives tracked_labels the shape of label_maps; a
\* pixel whose label has a row of the linked table in its frame holds that
\* row's track identity, every other pixel holds 0.
C13_RelabelWithTracks ==
    (last.op \in {"tcw.relabel_with_tracks", "tcw.run"} /\ ~Rejected)
        => /\ tcw.label_maps = last.pre.label_maps
           /\ tcw.tracked_labels.shape = tcw.label_maps.shape
           /\ Len(tcw.tracked_labels.data) = Len(tcw.label_maps.data)
           /\ \A t \in 1..Len(tcw.label_maps.data) :
                LET f == tcw.label_maps.data[t] IN
                \A p \in FramePixels(f) :
                    LET L == Px(f, p)
                        rows == RowsOf(tcw.linked, t - 1, L)
                    IN  IF L # 0 /\ rows # {}
                        THEN \A i \in rows :
                                Px(tcw.tracked_labels.data[t], p)
                                    = tcw.linked.rows[i].particle
                        ELSE Px(tcw.tracked_labels.data[t], p) = 0

\* relabel_with_tracks alone, after a pruning: a pixel that held a track
\* identity before holds 0 now, another one holds its track identity
C13_Witness ==
    /\ last.op = "tcw.relabel_with_tracks"
    /\ ~Rejected
    /\ last.pre.tracked_labels # None
    /\ last.pre.tracked_labels.shape = tcw.tracked_labels.shape
    /\ \E t \in 1..Len(tcw.label_maps.data) :
        \E p, q \in FramePixels(tcw.label_maps.data[t]) :
            /\ Px(last.pre.tracked_labels.data[t], p) # 0
            /\ Px(tcw.tracked_labels.data[t], p) = 0
            /\ Px(tcw.tracked_labels.data[t], q) # 0

\* the linked table of run() just before make_pairs, rebuilt from the worker
\* the call started on and from what link_df answered
BeforePairing == TrackRunLink(TrackRunDetect(last.pre), last.arg.particle)[1]

\* C14: after run() with merge_neighbors set, the two members of every pair
\* of make_pairs share one identity that no track had before; every row of
\* either member, in whatever frame, carries it, and so do the pixels of that
\* row's label in tracked_labels; no row and no pixel holds the old identity
\* of a member.
C14_PairIsOneLineage ==
    (last.op = "tcw.run" /\ ~Rejected /\ last.pre.merge_neighbors)
        => LET before == BeforePairing.linked.rows
               after == tcw.linked.rows
               members == DictKeys(tcw.pairs)
           IN  /\ Len(after) = Len(before)
               /\ \A a \in members :
                    \E k \in 1..(Len(before) + Cardinality(members) + 1) :
                        /\ \A i \in 1..Len(before) : before[i].particle # k
                        /\ \A i \in 1..Len(before) :
                            before[i].particle \in {a, DictGet(tcw.pairs, a)}
                                => /\ after[i].particle = k
                                   /\ after[i].frame = before[i].frame
                                   /\ after[i].orig_label = before[i].orig_label
                                   /\ LET f == tcw.label_maps.data[after[i].frame + 1] IN
                                      \A p \in Region(f, after[i].orig_label) :
                                        Px(tcw.tracked_labels.data[after[i].frame + 1], p) = k
               /\ \A i \in 1..Len(after) : after[i].particle \notin members
               /\ \A t \in 1..Len(tcw.tracked_labels.data) :
                    \A p \in FramePixels(tcw.tracked_labels.data[t]) :
                        Px(tcw.tracked_labels.data[t], p) \notin members

\* a pair one member of which was tracked over more than one frame
C14_Witness ==
    /\ last.op = "tcw.run"
    /\ ~Rejected
    /\ last.pre.merge_neighbors
    /\ Len(tcw.pairs) > 0
    /\ \E i, j \in 1..Len(BeforePairing.linked.rows) :
        /\ BeforePairing.linked.rows[i].particle \in DictKeys(tcw.pairs)
        /\ BeforePairing.linked.rows[j].particle
                = BeforePairing.linked.rows[i].particle
        /\ BeforePairing.linked.rows[j].frame
                # BeforePairing.linked.rows[i].frame

\* the pixels of a frame that hold the value L
Footprint(f, L) == {p \in FramePixels(f) : Px(f, p) = L}

\* C15: in what labels_to_outlines returns, before any masking, the ring
\* pixels and the inner pixels of a nonzero label are disjoint and together
\* are the pixels of that label, and a nonzero ring or inner pixel holds the
\* label of its pixel: the OR into the buffers mixes no two labels.
C15_RingAndInnerPartition ==
    miw.label_maps # None
        => LET out == LabelsToOutlinesF(miw).buffers IN
           \A t \in 1..Len(out) :
                LET lab == miw.label_maps.data[t]
                    rings == out[t][1]
                    inner == out[t][2]
                IN  /\ \A p \in FramePixels(lab) :
                        /\ Px(rings, p) \in {0, Px(lab, p)}
                        /\ Px(inner, p) \in {0, Px(lab, p)}
                        /\ Px(lab, p) # 0
                            => (Px(rings, p) = 0) # (Px(inner, p) = 0)
                    /\ \A L \in {Px(lab, p) : p \in FramePixels(lab)} \ {0} :
                        /\ Footprint(rings, L) \cap Footprint(inner, L) = {}
                        /\ Footprint(rings, L) \cup Footprint(inner, L)
                                = Footprint(lab, L)
                        /\ Cardinality(Footprint(rings, L))
                            + Cardinality(Footprint(inner, L))
                                = Cardinality(Footprint(lab, L))

\* run() went through labels_to_outlines on a frame in which two labels
\* touch and each has ring pixels and inner pixels
C15_Witness ==
    /\ last.op = "miw.run"
    /\ ~Rejected
    /\ LET out == LabelsToOutlinesF(miw).buffers IN
       \E t \in 1..Len(out) :
            \E L, K \in {Px(miw.label_maps.data[t], p) :
                            p \in FramePixels(miw.label_maps.data[t])} \ {0} :
                /\ L # K
                /\ \A V \in {L, K} : /\ Footprint(out[t][1], V) # {}
                                     /\ Footprint(out[t][2], V) # {}
                /\ \E p \in Footprint(out[t][1], L), q \in Footprint(out[t][1], K) :
                        Touching(p, q)

\* the sum of the intensities of frame t over the pixels of S
Total(t, S) == SumF([p \in S |-> Px(miw.intensity_channel.data[t], p)])

\* intensity I is at or above mean + factor * stddev of the intensities that
\* frame t has under a nonzero label: with n such pixels, their sum s and the
\* sum q of their squares, n * I - s >= factor * sqrt(n * q - s * s)
TooBright(I, t) ==
    LET under == {p \in FramePixels(miw.label_maps.data[t]) :
                    Px(miw.label_maps.data[t], p) # 0}
        n == Cardinality(under)
        s == Total(t, under)
        q == SumF([p \in under |-> Px(miw.intensity_channel.data[t], p)
                                    * Px(miw.intensity_channel.data[t], p)])
        g == GCD(1000, miw.factor)
        d == (1000 \div g) * (n * I - s)
    IN  /\ n > 0
        /\ d >= 0
        /\ d * d >= (miw.factor \div g) * (miw.factor \div g) * (n * q - s * s)

\* the pixels of frame t that keep the value L of buffer `which` of
\* labels_to_outlines (1: rings, 2: inner)
Kept(out, t, which, L) ==
    {p \in Footprint(out[t][which], L) :
        ~TooBright(Px(miw.intensity_channel.data[t], p), t)}

\* C16: after run(), a pixel whose intensity is at or above the threshold of
\* its own frame is 0 in rings and in inner, every other pixel holds what
\* labels_to_outlines gave it, and the statistics of a label are those of the
\* pixels it keeps; the threshold of a frame is made of that frame only.
C16_OutliersExcludedPerFrame ==
    (last.op = "miw.run" /\ ~Rejected)
        => LET out == LabelsToOutlinesF(miw).buffers IN
           /\ Len(miw.rings.data) = Len(out)
           /\ Len(miw.inner.data) = Len(out)
           /\ Len(miw.results.list) = Len(out)
           /\ \A t \in 1..Len(out) :
                /\ \A p \in FramePixels(miw.label_maps.data[t]) :
                    IF TooBright(Px(miw.intensity_channel.data[t], p), t)
                    THEN /\ Px(miw.rings.data[t], p) = 0
                         /\ Px(miw.inner.data[t], p) = 0
                    ELSE /\ Px(miw.rings.data[t], p) = Px(out[t][1], p)
                         /\ Px(miw.inner.data[t], p) = Px(out[t][2], p)
                /\ \A L \in DictKeys(miw.results.list[t]) :
                    LET rec == DictGet(miw.results.list[t], L) IN
                    /\ rec[2] = Total(t, Kept(out, t, 1, L))
                    /\ rec[3] = Cardinality(Kept(out, t, 1, L))
                    /\ rec[1] = <<rec[2], rec[3]>>
                    /\ Len(rec) = 6
                        => /\ rec[5] = Total(t, Kept(out, t, 2, L))
                           /\ rec[6] = Cardinality(Kept(out, t, 2, L))
                           /\ rec[4] = <<rec[5], rec[6]>>

\* a run over two frames: in the first a labelled pixel is excluded and
\* another one is kept and measured, in the second every labelled pixel is
\* excluded
C16_Witness ==
    /\ last.op = "miw.run"
    /\ ~Rejected
    /\ Len(miw.rings.data) = 2
    /\ LET out == LabelsToOutlinesF(miw).buffers IN
       /\ \E p, q \in FramePixels(miw.label_maps.data[1]) :
            /\ Px(out[1][2], p) # 0
            /\ Px(miw.inner.data[1], p) = 0
            /\ Px(out[1][1], q) # 0
            /\ Px(miw.rings.data[1], q) # 0
       /\ Len(miw.results.list[1]) > 0
       /\ \E p \in FramePixels(miw.label_maps.data[2]) :
            Px(miw.label_maps.data[2], p) # 0
       /\ \A p \in FramePixels(miw.label_maps.data[2]) :
            Px(miw.rings.data[2], p) = 0

\* (mean, sum, area) of the intensities of frame t over the pixels of S
Triple(t, S) == << <<Total(t, S), Cardinality(S)>>, Total(t, S), Cardinality(S) >>

\* C17: after a run() that completes, results has one entry per frame; the
\* keys of a frame's entry are the labels that have a ring pixel left after
\* the masking, once each; the record of a label is the ring triple followed
\* by the inner triple when the label has an inner pixel left, and the ring
\* triple alone when it has none; a label without a ring pixel has no record.
C17_ResultsShape ==
    (last.op = "miw.run" /\ ~Rejected)
        => /\ Len(miw.results.list) = Len(miw.rings.data)
           /\ \A t \in 1..Len(miw.results.list) :
                LET rings == miw.rings.data[t]
                    inner == miw.inner.data[t]
                    keys == DictKeys(miw.results.list[t])
                IN  /\ keys = {Px(rings, p) : p \in FramePixels(rings)} \ {0}
                    /\ Len(miw.results.list[t]) = Cardinality(keys)
                    /\ \A L \in keys :
                        DictGet(miw.results.list[t], L) =
                            IF Footprint(inner, L) # {}
                            THEN Triple(t, Footprint(rings, L))
                                    \o Triple(t, Footprint(inner, L))
                            ELSE Triple(t, Footprint(rings, L))

\* a frame with a label of ring and inner, a label of ring only and a label
\* of which only inner pixels are left
C17_Witness ==
    /\ last.op = "miw.run"
    /\ ~Rejected
    /\ \E t \in 1..Len(miw.results.list) :
        \E L, K, N \in 1..3 :
            /\ L \in DictKeys(miw.results.list[t])
            /\ Len(DictGet(miw.results.list[t], L)) = 6
            /\ K \in DictKeys(miw.results.list[t])
            /\ Len(DictGet(miw.results.list[t], K)) = 3
            /\ N \notin DictKeys(miw.results.list[t])
            /\ Footprint(miw.inner.data[t], N) # {}


\* the cell of the results table at (row, column), both 0-based, shows nothing
BlankCell(table, row, column) ==
    \/ <<row, column>> \notin DOMAIN table.items
    \/ table.items[<<row, column>>] \in {None, Blank}

\* C18: open_results_table on any results of measure_intensities completes
\* without raising, and for a label whose record is ring-only (3 values) the
\* three inner cells of that label are blank.
C18_DisplayAcceptsRingOnly ==
    (last.op = "widget.open_results_table" /\ last.arg.data # None)
        => /\ ~Rejected
           /\ gui.rt # None
           /\ LET data == last.arg.data.list IN
              \A frame \in 0..(Len(data) - 1) :
                \A i \in 0..(Len(data[frame + 1]) - 1) :
                    Len(data[frame + 1][i + 1][2]) = 3
                        => \A c \in 3..5 :
                            BlankCell(gui.rt.table, frame, i * nHeaders + c)


\* C19: after relabel_with_tracks, no assignment was refused for its size,
\* and every pixel that carries the label of a row of the linked table holds
\* the identity of that row itself.
C19_IdentityStoredWhole ==
    (last.op = "tcw.relabel_with_tracks" /\ tcw.linked # None /\ tcw.label_maps # None)
        => /\ last.raised # ErrOverflow
           /\ ~Rejected =>
                \A i \in 1..Len(tcw.linked.rows) :
                    LET row == tcw.linked.rows[i]
                        lab == tcw.label_maps.data[row.frame + 1]
                    IN  row.orig_label # 0 =>
                        \A p \in FramePixels(lab) :
                            Px(lab, p) = row.orig_label
                                => Px(tcw.tracked_labels.data[row.frame + 1], p) = row.particle


\* C20: a call of MeasureMembraneIntensity.run leaves the file system as it
\* was (no file is written), and it does not fail for a reason found in the
\* file system (a missing directory).
C20_RunWithoutFileIO ==
    [][MeasureRun => (fs' = fs /\ last'.raised # ErrNoExported)]_vars


\* the axes of the tracker do not begin with the time tag
NoTime(self) == self.axes[1] # "T"

\* the axes begin with the time tag and no row of the linked table lies at
\* the last frame index
EmptyLast(self) ==
    /\ self.axes[1] = "T"
    /\ self.label_maps # None
    /\ RowsOfFrame(self.linked.rows, self.label_maps.shape[1] - 1) = <<>>

\* C21: on a tracker with a linked table, isolate_full_tracks without a
\* time axis changes nothing; make_pairs without a time axis, or with one and
\* no row at the last frame index, leaves an empty pair map and the table as
\* it was; apply_pairing on an empty pair map changes no row; and the pair
\* map after any make_pairs is what the call computes from an empty map,
\* whatever the map held before.
C21_PostProcessingNoOp ==
    /\ (last.op = "tcw.isolate_full_tracks" /\ last.pre.linked # None /\ NoTime(last.pre))
            => (tcw = last.pre /\ ~Rejected)
    /\ (/\ last.op = "tcw.make_pairs"
        /\ last.pre.linked # None
        /\ (NoTime(last.pre) \/ EmptyLast(last.pre)))
            => (tcw = [last.pre EXCEPT !.pairs = EmptyDict] /\ ~Rejected)
    /\ (last.op = "tcw.apply_pairing" /\ last.pre.linked # None /\ last.pre.pairs = EmptyDict)
            => (tcw = last.pre /\ ~Rejected)
    /\ (last.op = "tcw.make_pairs" /\ last.pre.linked # None)
            => \E order \in MakePairsOrders(last.pre) :
                tcw.pairs = MakePairsF([last.pre EXCEPT !.pairs = EmptyDict], order)[1].pairs

\* make_pairs without a time axis on a tracker that held pairs
C21_Witness ==
    /\ last.op = "tcw.make_pairs"
    /\ last.pre.linked # None
    /\ last.pre.pairs # EmptyDict
    /\ NoTime(last.pre)
    /\ tcw.pairs = EmptyDict


\* the handlers the launch controls are connected to
LaunchOps ==
    {"widget.launch_segmentation", "widget.launch_tracking",
     "widget.launch_keep_labels", "widget.launch_measurement",
     "widget.clear_state"}

\* C22: the widget has at most one worker thread whose finish handler has
\* not run yet; while it has one, every launch control is disabled; and no
\* handler of a launch control (clear_state among them) runs while a thread
\* is there.
C22_OneWorkerThread ==
    /\ Len(gui.threads) <= 1
    /\ Len(gui.threads) > 0 => \A c \in LaunchControls : ~gui.enabled[c]
    /\ last.op \in LaunchOps => Len(last.pre.threads) = 0

\* a launch handler has just started a thread
C22_Witness ==
    /\ last.op = "widget.launch_tracking"
    /\ last.arg.started
    /\ Len(gui.threads) = 1
    /\ gui.threads[1].phase = "started"


\* C23: whenever a launch handler has started a thread and disabled the
\* controls, the controls are enabled again later, whatever the worker does.
C23_ControlsEnabledAgain ==
    (Len(gui.threads) > 0 /\ \A c \in Controls : ~gui.enabled[c])
        ~> (\A c \in Controls : gui.enabled[c])


\* the override of the last call failed on the data, after its axes were taken
DataRejected == last.raised \in {ErrLabelMapsAxes, ErrIntensityAxes}

\* C24: an override that raises leaves the array it was to bind at None,
\* whatever was bound before, and changes nothing else but the axes, which
\* are the new ones exactly when it was the data that was rejected; run()
\* on a worker without label maps, or on a measurer without intensity
\* channel, raises the matching 'not set' error and changes nothing.
C24_FailedOverrideNotRolledBack ==
    /\ (last.op = "tcw.override_label_maps" /\ Rejected) =>
           tcw = [last.pre EXCEPT
                     !.label_maps = None,
                     !.axes = IF DataRejected THEN last.arg.axes ELSE last.pre.axes]
    /\ (last.op = "miw.override_label_maps" /\ Rejected) =>
           miw = [last.pre EXCEPT
                     !.label_maps = None,
                     !.axes = IF DataRejected THEN last.arg.axes ELSE last.pre.axes]
    /\ (last.op = "miw.override_intensity_channel" /\ Rejected) =>
           miw = [last.pre EXCEPT
                     !.intensity_channel = None,
                     !.axes = IF DataRejected THEN last.arg.axes ELSE last.pre.axes]
    /\ (last.op \in {"tcw.override_label_maps", "miw.override_label_maps",
                     "miw.override_intensity_channel"} /\ DataRejected) =>
           last.arg.ndim # Len(last.arg.axes)
    /\ (last.op = "tcw.run" /\ last.pre.label_maps = None) =>
           (last.raised = ErrNoLabelMaps /\ tcw = last.pre)
    /\ (last.op = "miw.run" /\ last.pre.label_maps = None) =>
           (last.raised = ErrNoLabelMaps /\ miw = last.pre)
    /\ (last.op = "miw.run" /\ last.pre.label_maps # None
                            /\ last.pre.intensity_channel = None) =>
           (last.raised = ErrNoIntensity /\ miw = last.pre)

\* an override that had label maps to lose has just failed on its data
C24_Witness ==
    /\ last.op = "tcw.override_label_maps"
    /\ DataRejected
    /\ last.pre.label_maps # None
    /\ tcw.label_maps = None
    /\ tcw.axes # last.pre.axes

====
